---- MODULE Spec2Model ----
(***************************************************************************)
(* Delta Chat core: incoming-message ingestion (receive_imf), the group-id *)
(* resolver (lookup_group_by_grpid__) and the mailbox facade around them,  *)
(* modelled from src/src/mrmailbox.c.                                      *)
(*                                                                         *)
(* Strings the code inspects (message ids, group ids, group names) are     *)
(* sequences of one-character strings; e-mail addresses are atoms compared *)
(* through Lower (strcasecmp).  The database is a record of tables; a      *)
(* transaction is a working copy that commit installs and rollback drops.  *)
(***************************************************************************)
EXTENDS Integers, Sequences, FiniteSets, TLC

VARIABLES
    db,            \* the committed database (contacts, chats, chats_contacts, msgs, leftgrps, config)
    last_smeared,  \* s_last_smeared_timestamp of the smeared-time collaborator
    calls,         \* number of facade calls made so far
    last,          \* record of the most recent facade call: inputs, database before, outcome, events
    prev,          \* the record of the call before that
    m_wake_lock,   \* mailbox->m_wake_lock, the wake lock counter
    wake_mutex,    \* the thread holding mailbox->m_wake_lock_critical, 0 if free
    wake_pc,       \* per thread: where it stands in mrmailbox_wake_lock / mrmailbox_wake_unlock
    wake_events,   \* data1 of the MR_EVENT_WAKE_LOCK events emitted so far, in order
    wake_hist,     \* history: calls made, locks not yet given back, 0->1 and 1->0 steps of the counter
    lk_open,       \* mrsqlite3_is_open: the database file is open
    lk_imap,       \* mrimap_is_connected
    lk_configured, \* config "configured" is non-zero
    lk_job,        \* a MRJ_CONNECT_TO_IMAP job is queued
    lk_last,       \* the routine called last and what it did to the lock and the database, in order
    lk_pc,         \* where the caller thread and the job thread stand in connect, disconnect and connect_to_imap
    pgp_in,        \* the dc_pgp function to call and its input
    pgp_out        \* what the function returned, once it was called

mailvars == <<db, last_smeared, calls, last, prev>>
wakevars == <<m_wake_lock, wake_mutex, wake_pc, wake_events, wake_hist>>
lockvars == <<lk_open, lk_imap, lk_configured, lk_job, lk_last, lk_pc>>
pgpvars == <<pgp_in, pgp_out>>
vars == <<mailvars, wakevars, lockvars, pgpvars>>

(***************************************************************************)
(* Bounds of the model                                                     *)
(***************************************************************************)
MaxCalls == 2      \* facade calls per behaviour
Now == 5           \* wall-clock second at which the calls happen

(***************************************************************************)
(* Program constants                                                       *)
(***************************************************************************)
MR_CONTACT_ID_SELF == 1
MR_CONTACT_ID_LAST_SPECIAL == 9
MR_CHAT_ID_DEADDROP == 1
MR_CHAT_ID_TO_DEADDROP == 2
MR_CHAT_ID_TRASH == 3
MR_CHAT_ID_LAST_SPECIAL == 9
MR_MSG_ID_LAST_SPECIAL == 9
MR_VALID_ID_LEN == 11
MR_INVALID_TIMESTAMP == -1

MR_CHAT_NORMAL == "normal"
MR_CHAT_GROUP == "group"
MR_MSG_TEXT == "text"
MR_MSG_IMAGE == "image"

MR_EVENT_MSGS_CHANGED == "MSGS_CHANGED"
MR_EVENT_INCOMING_MSG == "INCOMING_MSG"
MR_EVENT_MSG_READ == "MSG_READ"
MR_EVENT_CHAT_MODIFIED == "CHAT_MODIFIED"

MR_IN_FRESH == "IN_FRESH"
MR_IN_SEEN == "IN_SEEN"
MR_OUT_DELIVERED == "OUT_DELIVERED"
MR_OUT_READ == "OUT_READ"

\* origin ranks, lowest first
OriginOrder ==
    << "INCOMING_UNKNOWN_FROM", "INCOMING_CC", "INCOMING_TO", "INCOMING_REPLY_TO",
       "OUTGOING_BCC", "OUTGOING_CC", "OUTGOING_TO" >>

OriginRank(o) == CHOOSE i \in 1..Len(OriginOrder) : OriginOrder[i] = o

(***************************************************************************)
(* Strings                                                                 *)
(***************************************************************************)
NULL == <<"NULL">>          \* a C NULL pointer where a string is expected

SelfAddr == "self@x"

\* tolower() of the addresses the model uses
Lower(a) == IF a = "SELF@X" THEN "self@x" ELSE a

\* strcasecmp(a, b) == 0
StrCaseEq(a, b) == Lower(a) = Lower(b)

Digits == <<"0", "1", "2", "3", "4", "5", "6", "7", "8", "9">>

\* printf("%lu", n)
RECURSIVE NumStr(_)
NumStr(n) == IF n < 0 THEN <<"-">> \o NumStr(0 - n)
             ELSE IF n < 10 THEN <<Digits[n + 1]>>
             ELSE NumStr(n \div 10) \o <<Digits[(n % 10) + 1]>>

\* index of the first occurrence of character c in s at or after i, 0 if none (strchr)
RECURSIVE StrChr(_, _, _)
StrChr(s, c, i) == IF i > Len(s) THEN 0
                   ELSE IF s[i] = c THEN i
                   ELSE StrChr(s, c, i + 1)

Max(a, b) == IF a >= b THEN a ELSE b

SeqToSet(s) == {s[i] : i \in 1..Len(s)}

\* carray_search + carray_add: append x unless it is already in the array
AddUnique(s, x) == IF x \in SeqToSet(s) THEN s ELSE Append(s, x)

(***************************************************************************)
(* Persistence facade: the tables and the primitives the ingestion uses    *)
(***************************************************************************)
ContactIdOf(i) == MR_CONTACT_ID_LAST_SPECIAL + i
ChatIdOf(i) == MR_CHAT_ID_LAST_SPECIAL + i
MsgIdOf(i) == MR_MSG_ID_LAST_SPECIAL + i

ContactIds(d) == {ContactIdOf(i) : i \in 1..Len(d.contacts)}
ChatIds(d) == {ChatIdOf(i) : i \in 1..Len(d.chats)}
MsgIds(d) == {MsgIdOf(i) : i \in 1..Len(d.msgs)}

ContactRow(d, id) == d.contacts[id - MR_CONTACT_ID_LAST_SPECIAL]
ChatRow(d, id) == d.chats[id - MR_CHAT_ID_LAST_SPECIAL]
MsgRow(d, id) == d.msgs[id - MR_MSG_ID_LAST_SPECIAL]

\* the database of a freshly created mailbox file
EmptyDb ==
    [ contacts |-> <<>>, chats |-> <<>>, chats_contacts |-> {}, msgs |-> <<>>,
      leftgrps |-> {},
      config |-> [configured_addr |-> SelfAddr, show_deaddrop |-> 0, mdns_enabled |-> 1] ]

\* mrsqlite3_get_config__(sql, "configured_addr", "")
SelfAddrOf(d) == d.config.configured_addr

\* id of the contact with this address, 0 if there is none
LookupContactByAddr(d, addr) ==
    IF \E id \in ContactIds(d) : ContactRow(d, id).addr = Lower(addr)
    THEN CHOOSE id \in ContactIds(d) : ContactRow(d, id).addr = Lower(addr)
    ELSE 0

\* mrmailbox_add_or_lookup_contact__: an existing contact keeps its id and has its
\* origin raised, never lowered; a new contact enters at the origin of discovery
add_or_lookup_contact(d, addr, origin) ==
    LET id == LookupContactByAddr(d, addr) IN
    IF id # 0
    THEN [ db |-> [d EXCEPT !.contacts[id - MR_CONTACT_ID_LAST_SPECIAL].origin =
                        IF OriginRank(origin) > OriginRank(@) THEN origin ELSE @],
           id |-> id ]
    ELSE [ db |-> [d EXCEPT !.contacts =
                        Append(@, [addr |-> Lower(addr), origin |-> origin, blocked |-> FALSE])],
           id |-> ContactIdOf(Len(d.contacts) + 1) ]

\* mrmailbox_scaleup_contact_origin__
scaleup_contact_origin(d, id, origin) ==
    IF id \in ContactIds(d)
    THEN [d EXCEPT !.contacts[id - MR_CONTACT_ID_LAST_SPECIAL].origin =
              IF OriginRank(origin) > OriginRank(@) THEN origin ELSE @]
    ELSE d

\* mrmailbox_is_contact_blocked__
is_contact_blocked(d, id) == id \in ContactIds(d) /\ ContactRow(d, id).blocked

\* mrmailbox_is_known_contact__: known by any reason beyond an unknown From:, and not blocked
is_known_contact(d, id) ==
    /\ id \in ContactIds(d)
    /\ ~ContactRow(d, id).blocked
    /\ OriginRank(ContactRow(d, id).origin) > OriginRank("INCOMING_UNKNOWN_FROM")

\* mrmailbox_contact_addr_equals__
contact_addr_equals(d, id, addr) ==
    id \in ContactIds(d) /\ StrCaseEq(ContactRow(d, id).addr, addr)

\* mrmailbox_is_contact_in_chat__
is_contact_in_chat(d, chat_id, contact_id) == <<chat_id, contact_id>> \in d.chats_contacts

\* mrmailbox_add_contact_to_chat__
add_contact_to_chat(d, chat_id, contact_id) ==
    [d EXCEPT !.chats_contacts = @ \cup {<<chat_id, contact_id>>}]

\* mrmailbox_get_chat_contact_count__
get_chat_contact_count(d, chat_id) == Cardinality({p \in d.chats_contacts : p[1] = chat_id})

ChatMembers(d, chat_id) == {p[2] : p \in {q \in d.chats_contacts : q[1] = chat_id}}

\* mrmailbox_group_explicitly_left__
group_explicitly_left(d, grpid) == grpid \in d.leftgrps

\* SELECT id FROM chats WHERE grpid=?  (0 if no row)
LookupChatByGrpid(d, grpid) ==
    IF \E id \in ChatIds(d) : ChatRow(d, id).grpid = grpid
    THEN CHOOSE id \in ChatIds(d) : ChatRow(d, id).grpid = grpid
    ELSE 0

\* mrmailbox_lookup_real_nchat_by_contact_id__
lookup_real_nchat_by_contact_id(d, contact_id) ==
    LET hit == {id \in ChatIds(d) : /\ ChatRow(d, id).type = MR_CHAT_NORMAL
                                    /\ <<id, contact_id>> \in d.chats_contacts} IN
    IF hit # {} THEN CHOOSE id \in hit : \A o \in hit : id <= o ELSE 0

\* mrmailbox_create_or_lookup_nchat_by_contact_id__
create_or_lookup_nchat_by_contact_id(d, contact_id) ==
    LET found == lookup_real_nchat_by_contact_id(d, contact_id)
        newid == ChatIdOf(Len(d.chats) + 1) IN
    IF contact_id \notin ContactIds(d) THEN [db |-> d, id |-> 0]
    ELSE IF found # 0 THEN [db |-> d, id |-> found]
    ELSE [ db |-> [d EXCEPT
                    !.chats = Append(@, [type |-> MR_CHAT_NORMAL,
                                         name |-> <<ContactRow(d, contact_id).addr>>,
                                         grpid |-> <<>>]),
                    !.chats_contacts = @ \cup {<<newid, contact_id>>}],
           id |-> newid ]

\* rows of msgs with this rfc724_mid
MsgIdsWithMid(d, mid) == {id \in MsgIds(d) : MsgRow(d, id).rfc724_mid = mid}

\* mrmailbox_rfc724_mid_exists__: the first row with this Message-ID, 0 if none
rfc724_mid_exists(d, mid) ==
    LET hit == MsgIdsWithMid(d, mid) IN
    IF hit # {} THEN CHOOSE id \in hit : \A o \in hit : id <= o ELSE 0

\* mrmailbox_update_server_uid__
update_server_uid(d, mid, folder, uid) ==
    [d EXCEPT !.msgs = [i \in 1..Len(@) |->
        IF @[i].rfc724_mid = mid
        THEN [@[i] EXCEPT !.server_folder = folder, !.server_uid = uid]
        ELSE @[i]]]

\* INSERT INTO msgs ...; sqlite3_last_insert_rowid is MsgIdOf(Len(msgs)) afterwards
InsertMsg(d, row) == [d EXCEPT !.msgs = Append(@, row)]

\* mr_smeared_time__
smeared_time(ls) == IF ls >= Now THEN ls + 1 ELSE Now

\* mr_create_smeared_timestamp__ : the value returned, which is also the new s_last_smeared_timestamp
create_smeared_timestamp(ls) == IF Now <= ls THEN ls + 1 ELSE Now

\* mr_create_incoming_rfc724_mid: a Message-ID made of the timestamp, the sender and the largest recipient id
RECURSIVE LargestId(_)
LargestId(s) == IF s = <<>> THEN 0 ELSE Max(Head(s), LargestId(Tail(s)))

create_incoming_rfc724_mid(ts, from_id, to_list) ==
    NumStr(ts) \o <<"-">> \o NumStr(from_id) \o <<"-">> \o NumStr(LargestId(to_list)) \o <<"@", "stub">>

\* mr_decode_header_string: an RFC 2047 encoded word loses its framing, other text is unchanged
EncStart == "=?utf-8?Q?"
EncEnd == "?="

mr_decode_header_string(s) ==
    IF Len(s) >= 2 /\ s[1] = EncStart /\ s[Len(s)] = EncEnd
    THEN SubSeq(s, 2, Len(s) - 1)
    ELSE s


(***************************************************************************)
(* The event callback: every invocation is recorded together with whether  *)
(* the invoking thread holds the database lock and whether the call's      *)
(* transaction is still pending at that moment.                            *)
(***************************************************************************)
Cb(ev, data1, data2, locked, pending) ==
    [ev |-> ev, data1 |-> data1, data2 |-> data2, locked |-> locked, pending |-> pending]

(***************************************************************************)
(* Handle groups                                                           *)
(***************************************************************************)
NullAddr == "NULL"          \* a header that is absent where an address is expected

\* extract_grpid_from_messageid: the <id> of Gr.<id>.<rest> when <id> has MR_VALID_ID_LEN characters
extract_grpid_from_messageid(mid) ==
    IF mid = NULL \/ Len(mid) < 8 \/ mid[1] # "G" \/ mid[2] # "r" \/ mid[3] # "."
    THEN NULL
    ELSE LET ret == SubSeq(mid, 4, Len(mid))
             p1 == StrChr(ret, ".", 1) IN
         IF p1 = 0 THEN NULL
         ELSE IF p1 - 1 # MR_VALID_ID_LEN THEN NULL
         ELSE SubSeq(ret, 1, p1 - 1)

\* get_first_grpid_from_char_clist
RECURSIVE get_first_grpid_from_char_clist(_)
get_first_grpid_from_char_clist(list) ==
    IF list = <<>> THEN NULL
    ELSE IF extract_grpid_from_messageid(Head(list)) # NULL
         THEN extract_grpid_from_messageid(Head(list))
         ELSE get_first_grpid_from_char_clist(Tail(list))

\* a header walk that prefers the id of the Message-ID to the Chat-Group-ID header
GrpidOfMidFirst(m) ==
    LET grpid1 == m.grpid
        grpid2 == extract_grpid_from_messageid(m.mid)
        grpid3 == get_first_grpid_from_char_clist(m.in_reply_to)
        grpid4 == get_first_grpid_from_char_clist(m.references) IN
    IF grpid2 # NULL THEN grpid2
    ELSE IF grpid1 # NULL THEN grpid1
    ELSE IF grpid3 # NULL THEN grpid3
    ELSE grpid4

\* lookup_group_by_grpid__, header walk: grpid := grpid1 ?? grpid2 ?? grpid3 ?? grpid4
GrpidOf(m) ==
    LET grpid1 == m.grpid
        grpid2 == extract_grpid_from_messageid(m.mid)
        grpid3 == get_first_grpid_from_char_clist(m.in_reply_to)
        grpid4 == get_first_grpid_from_char_clist(m.references) IN
    IF grpid1 # NULL THEN grpid1
    ELSE IF grpid2 # NULL THEN grpid2
    ELSE IF grpid3 # NULL THEN grpid3
    ELSE grpid4

GrpnameOf(m) == IF m.grpname = NULL THEN NULL ELSE mr_decode_header_string(m.grpname)

\* a resolver that creates the group even for a message with a Removed header
ShouldCreateDespiteRemoved(d, m, chat_id, create_as_needed, grpid) ==
    /\ chat_id = 0
    /\ create_as_needed
    /\ GrpnameOf(m) # NULL
    /\ \/ ~group_explicitly_left(d, grpid)
       \/ (m.add # NullAddr /\ StrCaseEq(SelfAddrOf(d), m.add))

\* lookup_group_by_grpid__: "check if the group does not exist but should be created"
ShouldCreateGroup(d, m, chat_id, create_as_needed, grpid) ==
    /\ chat_id = 0
    /\ create_as_needed
    /\ GrpnameOf(m) # NULL
    /\ m.remove = NullAddr
    /\ \/ ~group_explicitly_left(d, grpid)
       \/ (m.add # NullAddr /\ StrCaseEq(SelfAddrOf(d), m.add))

\* a resolver that forgets which groups were left; C7_LeftGroupToTrash tells it from
\* NoChatResult
NoChatResultZero(d, grpid) == 0

\* lookup_group_by_grpid__: "again, check chat_id" for a chat id that is no real chat
NoChatResult(d, grpid) ==
    IF group_explicitly_left(d, grpid) THEN MR_CHAT_ID_TRASH ELSE 0

\* lookup_group_by_grpid__: the name-changed command applies
GrpNameLimit == 200

ShouldRename(m) ==
    /\ m.name_changed
    /\ GrpnameOf(m) # NULL
    /\ Len(GrpnameOf(m)) < GrpNameLimit

\* lookup_group_by_grpid__, recreate_member_list: the recipients of to_list that are added
RECURSIVE AddToList(_, _, _, _, _)
AddToList(d, chat_id, to_list, self_addr, skip) ==
    IF to_list = <<>> THEN d
    ELSE LET to_id == Head(to_list)
             d1 == IF /\ ~contact_addr_equals(d, to_id, self_addr)
                      /\ (skip = NullAddr \/ ~contact_addr_equals(d, to_id, skip))
                   THEN add_contact_to_chat(d, chat_id, to_id)
                   ELSE d IN
         AddToList(d1, chat_id, Tail(to_list), self_addr, skip)

\* lookup_group_by_grpid__, recreate_member_list: DELETE FROM chats_contacts WHERE chat_id=?
ClearMembers(d, chat_id) == [d EXCEPT !.chats_contacts = {p \in @ : p[1] # chat_id}]

\* a member list that stores the user under contact id 0; C6_MembersSelfOrReal tells it
\* from AddSelf
AddSelfAsZero(d, chat_id, skip) == add_contact_to_chat(d, chat_id, 0)

\* lookup_group_by_grpid__, recreate_member_list: SELF is added unless SELF is the one removed
AddSelf(d, chat_id, skip) ==
    IF skip = NullAddr \/ ~StrCaseEq(SelfAddrOf(d), skip)
    THEN add_contact_to_chat(d, chat_id, MR_CONTACT_ID_SELF)
    ELSE d

\* lookup_group_by_grpid__, recreate_member_list: from_id is added
AddsFrom(d, from_id, skip) ==
    /\ from_id > MR_CONTACT_ID_LAST_SPECIAL
    /\ ~contact_addr_equals(d, from_id, SelfAddrOf(d))
    /\ (skip = NullAddr \/ ~contact_addr_equals(d, from_id, skip))

\* a member list without the sender; C9_NewGroup tells it from AddFrom
AddFromNever(d, chat_id, from_id, skip) == d

AddFrom(d, chat_id, from_id, skip) ==
    IF AddsFrom(d, from_id, skip) THEN add_contact_to_chat(d, chat_id, from_id) ELSE d

\* a member list that is added to and never cleared
RecreateMemberListKeep(d, m, chat_id, from_id, to_list) ==
    AddToList(AddFrom(AddSelf(d, chat_id, m.remove), chat_id, from_id, m.remove),
              chat_id, to_list, SelfAddrOf(d), m.remove)

\* lookup_group_by_grpid__, recreate_member_list: the membership of chat_id is rebuilt
RecreateMemberList(d, m, chat_id, from_id, to_list) ==
    AddToList(AddFrom(AddSelf(ClearMembers(d, chat_id), chat_id, m.remove),
                      chat_id, from_id, m.remove),
              chat_id, to_list, SelfAddrOf(d), m.remove)

\* a guard that lets a chat of four contacts pass
ReplyGuardOverFour(d, m, chat_id, to_list) ==
    /\ Len(to_list) = 1
    /\ ~m.msgr
    /\ get_chat_contact_count(d, chat_id) > 4

\* a guard that takes a chat of three contacts for too large
ReplyGuardOverTwo(d, m, chat_id, to_list) ==
    /\ Len(to_list) = 1
    /\ ~m.msgr
    /\ get_chat_contact_count(d, chat_id) > 2

\* lookup_group_by_grpid__: the "Reply instead of Reply all" guard
ReplyGuard(d, m, chat_id, to_list) ==
    /\ Len(to_list) = 1
    /\ ~m.msgr
    /\ get_chat_contact_count(d, chat_id) > 3

\* lookup_group_by_grpid__: INSERT INTO chats (type, name, grpid)
InsertGroupChat(d, m, grpid) ==
    [d EXCEPT !.chats = Append(@, [type |-> MR_CHAT_GROUP, name |-> GrpnameOf(m), grpid |-> grpid])]

\* lookup_group_by_grpid__, "execute group commands": UPDATE chats SET name=?
IsCommand(m) == m.add # NullAddr \/ m.remove # NullAddr

RenameChat(d, m, chat_id) ==
    IF ~IsCommand(m) /\ ShouldRename(m)
    THEN [d EXCEPT !.chats[chat_id - MR_CHAT_ID_LAST_SPECIAL].name = GrpnameOf(m)]
    ELSE d

\* lookup_group_by_grpid__: the events of the rename and of the rebuilt member list;
\* locked/pending are the caller's lock and transaction state at the m_cb calls
GroupEvents(m, chat_id, created, locked, pending) ==
    (IF ~IsCommand(m) /\ ShouldRename(m)
     THEN <<Cb(MR_EVENT_CHAT_MODIFIED, chat_id, 0, locked, pending)>> ELSE <<>>)
    \o (IF created \/ IsCommand(m)
        THEN <<Cb(MR_EVENT_CHAT_MODIFIED, chat_id, 0, locked, pending)>> ELSE <<>>)

GroupResult(chat_id, d, events, created, create_tried) ==
    [chat_id |-> chat_id, db |-> d, events |-> events, created |-> created,
     create_tried |-> create_tried]

\* lookup_group_by_grpid__ from the Reply guard on, dM being the database after the commands
GuardedGroup(dM, m, chat_id, to_list, created, events) ==
    GroupResult(IF ReplyGuard(dM, m, chat_id, to_list) THEN 0 ELSE chat_id, dM, events,
                IF created THEN chat_id ELSE 0, created)

\* lookup_group_by_grpid__ from "execute group commands" on, for the real chat chat_id
ExecuteCommands(d, m, chat_id, from_id, to_list, created, locked, pending) ==
    GuardedGroup(IF created \/ IsCommand(m)
                 THEN RecreateMemberList(RenameChat(d, m, chat_id), m, chat_id, from_id, to_list)
                 ELSE RenameChat(d, m, chat_id),
                 m, chat_id, to_list, created,
                 GroupEvents(m, chat_id, created, locked, pending))

\* a resolver that takes every sender for a member
SenderAlwaysMember(d, found, from_id) == FALSE

\* lookup_group_by_grpid__: "check if the sender is a member of the existing group"
SenderIsNoMember(d, found, from_id) == found # 0 /\ ~is_contact_in_chat(d, found, from_id)

\* lookup_group_by_grpid__ once the group id and the chat carrying it (0: none) are known
ResolveGroup(d, m, create_as_needed, from_id, to_list, chat_insert_ok, locked, pending, grpid, found) ==
    IF grpid = NULL
    THEN GroupResult(0, d, <<>>, 0, FALSE)
    ELSE IF SenderIsNoMember(d, found, from_id)
    THEN GroupResult(0, d, <<>>, 0, FALSE)
    ELSE IF ShouldCreateGroup(d, m, found, create_as_needed, grpid)
    THEN IF chat_insert_ok
         THEN ExecuteCommands(InsertGroupChat(d, m, grpid), m, ChatIdOf(Len(d.chats) + 1),
                              from_id, to_list, TRUE, locked, pending)
         ELSE GroupResult(0, d, <<>>, 0, TRUE)
    ELSE IF found <= MR_CHAT_ID_LAST_SPECIAL
    THEN GroupResult(NoChatResult(d, grpid), d, <<>>, 0, FALSE)
    ELSE ExecuteCommands(d, m, found, from_id, to_list, FALSE, locked, pending)

\* lookup_group_by_grpid__: the chat id the message belongs to (0: no group), the working
\* database afterwards and the events emitted on the way.  chat_insert_ok is the outcome of
\* the INSERT INTO chats; locked/pending are the caller's lock and transaction state.
lookup_group_by_grpid(d, m, create_as_needed, from_id, to_list, chat_insert_ok, locked, pending) ==
    ResolveGroup(d, m, create_as_needed, from_id, to_list, chat_insert_ok, locked, pending,
                 GrpidOf(m), LookupChatByGrpid(d, GrpidOf(m)))


(***************************************************************************)
(* Receive a message and add it to the database                            *)
(***************************************************************************)
\* correct_bad_timestamp__, first half: a fresh message is not older than the last
\* message of another user in the chat
RECURSIVE MaxTimestamp(_, _, _, _, _)
MaxTimestamp(rows, i, chat_id, from_id, desired) ==
    IF i > Len(rows) THEN 0
    ELSE LET rest == MaxTimestamp(rows, i + 1, chat_id, from_id, desired) IN
         IF rows[i].chat_id = chat_id /\ rows[i].from_id # from_id /\ rows[i].timestamp >= desired
         THEN Max(rows[i].timestamp, rest)
         ELSE rest

FreshTimestamp(d, chat_id, from_id, desired, is_fresh_msg) ==
    LET last_msg_time == MaxTimestamp(d.msgs, 1, chat_id, from_id, desired) IN
    IF is_fresh_msg /\ last_msg_time > 0 /\ desired <= last_msg_time
    THEN last_msg_time + 1
    ELSE desired

\* correct_bad_timestamp__: the timestamp to store and s_last_smeared_timestamp afterwards
correct_bad_timestamp(d, ls, chat_id, from_id, desired_timestamp, is_fresh_msg) ==
    LET desired == FreshTimestamp(d, chat_id, from_id, desired_timestamp, is_fresh_msg) IN
    IF desired >= smeared_time(ls)
    THEN [ts |-> create_smeared_timestamp(ls), ls |-> create_smeared_timestamp(ls)]
    ELSE [ts |-> desired, ls |-> ls]

\* add_or_lookup_contact_by_addr__ on the accumulator [db, ids, check_self]
add_or_lookup_contact_by_addr(acc, addr_spec, origin) ==
    IF StrCaseEq(SelfAddrOf(acc.db), addr_spec)
    THEN [acc EXCEPT !.check_self = TRUE]
    ELSE LET r == add_or_lookup_contact(acc.db, addr_spec, origin) IN
         [db |-> r.db, ids |-> AddUnique(acc.ids, r.id), check_self |-> FALSE]

\* add_or_lookup_contacts_by_mailbox_list__ / add_or_lookup_contacts_by_address_list__
RECURSIVE add_or_lookup_contacts_by_list(_, _, _)
add_or_lookup_contacts_by_list(acc, list, origin) ==
    IF list = <<>> THEN acc
    ELSE add_or_lookup_contacts_by_list(
             add_or_lookup_contact_by_addr(acc, Head(list), origin), Tail(list), origin)

\* mrmailbox_mdn_from_ext__: the sent message a read receipt refers to, 0 if none
mdn_from_ext_hit(d, from_id, mid) ==
    LET hit == {id \in MsgIdsWithMid(d, mid) : MsgRow(d, id).from_id = MR_CONTACT_ID_SELF}
        first == CHOOSE id \in hit : \A o \in hit : id <= o IN
    IF hit = {} THEN 0
    ELSE IF MsgRow(d, first).state # MR_OUT_DELIVERED THEN 0
    ELSE first

\* receive_imf, "Handle reports": the accumulator [db, rr] after every report was looked at
RECURSIVE HandleReports(_, _, _, _)
HandleReports(acc, reports, from_id, mdns_enabled) ==
    IF reports = <<>> THEN acc
    ELSE LET r == Head(reports)
             msg_id == mdn_from_ext_hit(acc.db, from_id, r.orig)
             next == IF r.wellformed /\ mdns_enabled # 0 /\ msg_id # 0
                     THEN [ db |-> [acc.db EXCEPT !.msgs[msg_id - MR_MSG_ID_LAST_SPECIAL].state = MR_OUT_READ],
                            rr |-> acc.rr \o << <<MsgRow(acc.db, msg_id).chat_id, msg_id>> >> ]
                     ELSE acc IN
         HandleReports(next, Tail(reports), from_id, mdns_enabled)

\* receive_imf, has_return_path: the typed field or an optional field named Return-Path
HasReturnPath(m) == m.return_path \in {"typed", "optional"}

\* receive_imf, "Add parts", the id recorded in created_db_entries for the part row just inserted
PartEntryId(first_dblocal_id, new_id) == first_dblocal_id

\* receive_imf, insertion of the parts: accumulator [db, n, first, entries, failed];
\* n counts the INSERTs into msgs of this call, fail_at is the INSERT that hits an i/o error
RECURSIVE InsertParts(_, _, _, _)
InsertParts(acc, parts, proto, fail_at) ==
    IF parts = <<>> \/ acc.failed THEN acc
    ELSE IF acc.n + 1 = fail_at THEN [acc EXCEPT !.n = @ + 1, !.failed = TRUE]
    ELSE LET d1 == InsertMsg(acc.db, [proto EXCEPT !.type = Head(parts), !.txt = <<Head(parts)>>])
             new_id == MsgIdOf(Len(d1.msgs))
             first == IF acc.first = 0 THEN new_id ELSE acc.first IN
         InsertParts([ db |-> d1, n |-> acc.n + 1, first |-> first,
                       entries |-> acc.entries \o << <<proto.chat_id, PartEntryId(first, new_id)>> >>,
                       failed |-> FALSE ],
                     Tail(parts), proto, fail_at)

\* MR_GHOST_ID_FORMAT
GhostMid(first_dblocal_id) == <<"G", "@">> \o NumStr(first_dblocal_id)

\* receive_imf, the ghost rows of the additional recipients
RECURSIVE InsertGhosts(_, _, _, _)
InsertGhosts(acc, recipients, proto, fail_at) ==
    IF recipients = <<>> \/ acc.failed THEN acc
    ELSE IF acc.n + 1 = fail_at THEN [acc EXCEPT !.n = @ + 1, !.failed = TRUE]
    ELSE LET ghost_to_id == Head(recipients)
             nchat == lookup_real_nchat_by_contact_id(acc.db, ghost_to_id)
             ghost_chat_id == IF nchat = 0 THEN MR_CHAT_ID_TO_DEADDROP ELSE nchat
             d1 == InsertMsg(acc.db, [proto EXCEPT !.chat_id = ghost_chat_id, !.to_id = ghost_to_id])
             ghost_dblocal_id == MsgIdOf(Len(d1.msgs)) IN
         InsertGhosts([ db |-> d1, n |-> acc.n + 1, first |-> acc.first,
                        entries |-> acc.entries \o << <<ghost_chat_id, ghost_dblocal_id>> >>,
                        failed |-> FALSE ],
                      Tail(recipients), proto, fail_at)

\* an event selection that ignores show_deaddrop; C10_Deaddrop tells it from
\* CreateEventToSend
CreateEventToSendAlways(d, incoming, state, from_id_blocked, chat_id) ==
    IF incoming /\ state = MR_IN_FRESH
    THEN IF from_id_blocked THEN "0" ELSE MR_EVENT_INCOMING_MSG
    ELSE MR_EVENT_MSGS_CHANGED

\* an event selection that announces the messages of blocked senders as well
CreateEventToSendBlocked(d, incoming, state, from_id_blocked, chat_id) ==
    IF incoming /\ state = MR_IN_FRESH
    THEN IF chat_id = MR_CHAT_ID_DEADDROP
         THEN IF d.config.show_deaddrop # 0 THEN MR_EVENT_INCOMING_MSG ELSE MR_EVENT_MSGS_CHANGED
         ELSE MR_EVENT_INCOMING_MSG
    ELSE MR_EVENT_MSGS_CHANGED

\* receive_imf, "check event to send" (0: no create event)
CreateEventToSend(d, incoming, state, from_id_blocked, chat_id) ==
    IF incoming /\ state = MR_IN_FRESH
    THEN IF from_id_blocked THEN "0"
         ELSE IF chat_id = MR_CHAT_ID_DEADDROP
              THEN IF d.config.show_deaddrop # 0 THEN MR_EVENT_INCOMING_MSG ELSE MR_EVENT_MSGS_CHANGED
              ELSE MR_EVENT_INCOMING_MSG
    ELSE MR_EVENT_MSGS_CHANGED

\* a cleanup that forgets the rollback; C2_AllOrNothing tells it from CleanupDb
CleanupDbKeep(transaction_pending, before, work) == work

\* receive_imf, cleanup: a pending transaction is rolled back, a finished one stays
CleanupDb(transaction_pending, before, work) == IF transaction_pending THEN before ELSE work

\* receive_imf, cleanup: one create event per entry of created_db_entries
CreateEvents(create_event_to_send, entries) ==
    IF create_event_to_send = "0" THEN <<>>
    ELSE [i \in 1..Len(entries) |-> Cb(create_event_to_send, entries[i][1], entries[i][2], FALSE, FALSE)]

\* a cleanup that drops rr_event_to_send; C12_MsgRead tells it from ReadEvents
ReadEventsNone(rr) == <<>>

\* receive_imf, cleanup: one MSG_READ per entry of rr_event_to_send
ReadEvents(rr) ==
    [i \in 1..Len(rr) |-> Cb(MR_EVENT_MSG_READ, rr[i][1], rr[i][2], FALSE, FALSE)]


\* is_known_rfc724_mid__
is_known_rfc724_mid(d, rfc724_mid) ==
    /\ rfc724_mid # NULL
    /\ \E id \in MsgIdsWithMid(d, rfc724_mid) :
          \/ MsgRow(d, id).chat_id > MR_CHAT_ID_LAST_SPECIAL
          \/ MsgRow(d, id).from_id = MR_CONTACT_ID_SELF

\* is_known_rfc724_mid_in_list__
is_known_rfc724_mid_in_list(d, mid_list) ==
    \E i \in 1..Len(mid_list) : is_known_rfc724_mid(d, mid_list[i])

\* is_reply_to_known_message__
is_reply_to_known_message(d, m) ==
    \/ is_known_rfc724_mid(d, m.predecessor)
    \/ is_known_rfc724_mid_in_list(d, m.in_reply_to)
    \/ is_known_rfc724_mid_in_list(d, m.references)

(***************************************************************************)
(* receive_imf as a pipeline over the locals of the function.  c.d is the  *)
(* database before the call, c.db the working copy inside the transaction, *)
(* c.stop the jump to cleanup taken ("": none).                            *)
(***************************************************************************)
EmptyIds(d) == [db |-> d, ids |-> <<>>, check_self |-> FALSE]

\* locals at function entry
Start(d, ls, m, server_folder, server_uid, seen, fail) ==
    [ d |-> d, db |-> d, ls |-> ls, m |-> m, server_folder |-> server_folder,
      server_uid |-> server_uid, seen |-> seen, fail |-> fail,
      incoming |-> FALSE, known |-> FALSE, blocked |-> FALSE, from_id |-> 0, to_id |-> 0,
      to_list |-> <<>>, state |-> "UNDEFINED", chat_id |-> 0, is_group |-> FALSE,
      grp_events |-> <<>>, grp_created |-> 0, chat_insert |-> FALSE,
      timestamp |-> MR_INVALID_TIMESTAMP, rfc724_mid |-> NULL,
      n |-> 0, first |-> 0, entries |-> <<>>, rr |-> <<>>,
      create_event_to_send |-> MR_EVENT_MSGS_CHANGED,
      stop |-> IF m.parsed THEN "" ELSE "noheader" ]

\* the blocks on parts run only if there are parts, and nothing but cleanup runs after a
\* jump to cleanup
InParts(c) == c.stop = "" /\ c.m.parts # <<>>

\* has_return_path, then From: decides incoming, from_id, incoming_from_known_sender;
\* acc is what the walk over the From: mailboxes left
FromResult(c, acc) ==
    LET incoming == HasReturnPath(c.m) /\ ~acc.check_self
        from_id == IF HasReturnPath(c.m) /\ ~acc.check_self /\ acc.ids # <<>> THEN acc.ids[1] ELSE 0 IN
    [ c EXCEPT !.db = acc.db, !.incoming = incoming, !.from_id = from_id,
               !.known = from_id # 0 /\ is_known_contact(acc.db, from_id),
               !.blocked = from_id # 0 /\ is_contact_blocked(acc.db, from_id) ]

StageFrom(c) ==
    IF c.stop # "" THEN c
    ELSE FromResult(c, IF HasReturnPath(c.m) /\ c.m.from # <<>>
                       THEN add_or_lookup_contacts_by_list(EmptyIds(c.db), c.m.from,
                                                           "INCOMING_UNKNOWN_FROM")
                       ELSE EmptyIds(c.db))

\* the recipients collected so far and the contacts table they were looked up in
WithRecipients(c, acc) == [ c EXCEPT !.db = acc.db, !.to_list = acc.ids ]

\* To: is walked for outgoing messages and for incoming ones of a known sender
StageTo(c) ==
    IF c.stop # "" THEN c
    ELSE IF ~c.incoming \/ c.known
    THEN WithRecipients(c, add_or_lookup_contacts_by_list(EmptyIds(c.db), c.m.to,
                               IF c.incoming THEN "INCOMING_TO" ELSE "OUTGOING_TO"))
    ELSE c

\* "collect the rest information": Cc: always
CcList(c) ==
    add_or_lookup_contacts_by_list([db |-> c.db, ids |-> c.to_list, check_self |-> FALSE],
                                   c.m.cc, IF c.incoming THEN "INCOMING_CC" ELSE "OUTGOING_CC")

\* "collect the rest information": Bcc: for outgoing messages
BccList(c, acc) ==
    IF ~c.incoming THEN add_or_lookup_contacts_by_list(acc, c.m.bcc, "OUTGOING_BCC") ELSE acc

StageCcBcc(c) == IF InParts(c) THEN WithRecipients(c, BccList(c, CcList(c))) ELSE c

\* state, from_id and to_id of the message, and what the group resolver said
GroupStage(c, from_id, grp) ==
    [ c EXCEPT !.state = IF c.incoming THEN (IF c.seen THEN MR_IN_SEEN ELSE MR_IN_FRESH)
                         ELSE MR_OUT_DELIVERED,
               !.from_id = from_id,
               !.to_id = IF c.incoming THEN MR_CONTACT_ID_SELF
                         ELSE IF c.to_list # <<>> THEN c.to_list[1] ELSE 0,
               !.db = grp.db,
               !.chat_id = grp.chat_id,
               !.is_group = grp.chat_id # 0,
               !.grp_events = grp.events,
               !.grp_created = grp.created,
               !.chat_insert = grp.create_tried ]

\* the group resolver is asked: always for incoming, for outgoing if there is a recipient
StageGroup(c) ==
    IF ~InParts(c) THEN c
    ELSE IF c.incoming
    THEN GroupStage(c, c.from_id,
                    lookup_group_by_grpid(c.db, c.m, c.known /\ c.m.msgr, c.from_id, c.to_list,
                                          c.fail.chat_ok, TRUE, TRUE))
    ELSE IF c.to_list # <<>>
    THEN GroupStage(c, MR_CONTACT_ID_SELF,
                    lookup_group_by_grpid(c.db, c.m, TRUE, MR_CONTACT_ID_SELF, c.to_list,
                                          c.fail.chat_ok, TRUE, TRUE))
    ELSE GroupStage(c, MR_CONTACT_ID_SELF, GroupResult(0, c.db, <<>>, 0, FALSE))

\* the chat a lookup or creation of a normal chat ended with, or else the deaddrop
ChatOr(made, deaddrop) ==
    [chat_id |-> IF made.id = 0 THEN deaddrop ELSE made.id, db |-> made.db]

\* incoming, no group: the chat with the sender, created for messenger messages of known
\* senders and for replies to known messages; else the deaddrop
IncomingChat(c) ==
    IF lookup_real_nchat_by_contact_id(c.db, c.from_id) # 0
    THEN [chat_id |-> lookup_real_nchat_by_contact_id(c.db, c.from_id), db |-> c.db]
    ELSE IF c.known /\ c.m.msgr
    THEN ChatOr(create_or_lookup_nchat_by_contact_id(c.db, c.from_id), MR_CHAT_ID_DEADDROP)
    ELSE IF is_reply_to_known_message(c.db, c.m)
    THEN ChatOr(create_or_lookup_nchat_by_contact_id(
                    scaleup_contact_origin(c.db, c.from_id, "INCOMING_REPLY_TO"), c.from_id),
                MR_CHAT_ID_DEADDROP)
    ELSE [chat_id |-> MR_CHAT_ID_DEADDROP, db |-> c.db]

\* outgoing, no group: the chat with the first recipient, created for messenger messages
\* to a recipient that is not blocked; else the to-deaddrop
\* the selection without the test of the recipient's blocked flag
OutgoingChatBlocked(c) ==
    IF c.to_list = <<>> THEN [chat_id |-> MR_CHAT_ID_TO_DEADDROP, db |-> c.db]
    ELSE IF lookup_real_nchat_by_contact_id(c.db, c.to_id) # 0
    THEN [chat_id |-> lookup_real_nchat_by_contact_id(c.db, c.to_id), db |-> c.db]
    ELSE IF c.m.msgr
    THEN ChatOr(create_or_lookup_nchat_by_contact_id(c.db, c.to_id), MR_CHAT_ID_TO_DEADDROP)
    ELSE [chat_id |-> MR_CHAT_ID_TO_DEADDROP, db |-> c.db]

OutgoingChat(c) ==
    IF c.to_list = <<>> THEN [chat_id |-> MR_CHAT_ID_TO_DEADDROP, db |-> c.db]
    ELSE IF lookup_real_nchat_by_contact_id(c.db, c.to_id) # 0
    THEN [chat_id |-> lookup_real_nchat_by_contact_id(c.db, c.to_id), db |-> c.db]
    ELSE IF c.m.msgr /\ ~is_contact_blocked(c.db, c.to_id)
    THEN ChatOr(create_or_lookup_nchat_by_contact_id(c.db, c.to_id), MR_CHAT_ID_TO_DEADDROP)
    ELSE [chat_id |-> MR_CHAT_ID_TO_DEADDROP, db |-> c.db]

WithChat(c, sel) == [ c EXCEPT !.chat_id = sel.chat_id, !.db = sel.db ]

StageChat(c) ==
    IF ~InParts(c) \/ c.is_group THEN c
    ELSE IF c.incoming THEN WithChat(c, IncomingChat(c))
    ELSE WithChat(c, OutgoingChat(c))

WithTimestamp(c, cts) == [ c EXCEPT !.timestamp = cts.ts, !.ls = cts.ls ]

\* correct_bad_timestamp__ is given "fresh" for every message not flagged IMAP_SEEN
StageTimestamp(c) ==
    IF InParts(c)
    THEN WithTimestamp(c, correct_bad_timestamp(c.db, c.ls, c.chat_id, c.from_id, c.m.date, ~c.seen))
    ELSE c

\* "check, if the mail is already in our database": old is the row carrying rfc724_mid
MidResult(c, rfc724_mid, old) ==
    IF old = 0 THEN [ c EXCEPT !.rfc724_mid = rfc724_mid ]
    ELSE [ c EXCEPT !.rfc724_mid = rfc724_mid,
                    !.stop = IF \/ MsgRow(c.db, old).server_folder # c.server_folder
                                \/ MsgRow(c.db, old).server_uid # c.server_uid
                             THEN "moved" ELSE "duplicate" ]

\* the Message-ID of the message, made up if the header is missing
MidOf(c) ==
    IF c.m.mid = NULL THEN create_incoming_rfc724_mid(c.timestamp, c.from_id, c.to_list)
    ELSE c.m.mid

StageMid(c) ==
    IF InParts(c) THEN MidResult(c, MidOf(c), rfc724_mid_exists(c.db, MidOf(c))) ELSE c

\* the row of a part, before its type and text are filled in
ProtoRow(c) ==
    [ rfc724_mid |-> c.rfc724_mid, server_folder |-> c.server_folder, server_uid |-> c.server_uid,
      chat_id |-> c.chat_id, from_id |-> c.from_id, to_id |-> c.to_id, timestamp |-> c.timestamp,
      type |-> MR_MSG_TEXT, state |-> c.state, msgrmsg |-> c.m.msgr, txt |-> <<>>, param |-> <<>> ]

\* the row of a ghost, before its chat and recipient are filled in
GhostProtoRow(c) ==
    [ ProtoRow(c) EXCEPT !.rfc724_mid = GhostMid(c.first), !.server_folder = "",
                         !.server_uid = 0, !.txt = <<"summary", c.m.parts[1]>>,
                         !.param = <<"G", "=">> \o NumStr(c.first) ]

\* the rows inserted so far; a failed INSERT jumps to cleanup
WithRows(c, acc) ==
    [ c EXCEPT !.db = acc.db, !.n = acc.n, !.first = acc.first, !.entries = acc.entries,
               !.stop = IF acc.failed THEN "failed" ELSE "" ]

\* "split the message into simple parts ... and add them to the database"
StageParts(c) ==
    IF InParts(c)
    THEN WithRows(c, InsertParts([db |-> c.db, n |-> 0, first |-> 0, entries |-> <<>>,
                                  failed |-> FALSE],
                                 c.m.parts, ProtoRow(c), c.fail.at))
    ELSE c

\* ghosts for group messages too; C11_Ghosts tells it from WantsGhosts
WantsGhostsInGroups(c) == ~c.incoming /\ Len(c.to_list) > 1 /\ c.first # 0

\* ghost messages are made for outgoing non-group messages with more than one recipient
WantsGhosts(c) == ~c.incoming /\ ~c.is_group /\ Len(c.to_list) > 1 /\ c.first # 0

StageGhosts(c) ==
    IF InParts(c) /\ WantsGhosts(c)
    THEN WithRows(c, InsertGhosts([db |-> c.db, n |-> c.n, first |-> c.first,
                                   entries |-> c.entries, failed |-> FALSE],
                                  Tail(c.to_list), GhostProtoRow(c), c.fail.at))
    ELSE c

StageEvent(c) ==
    IF InParts(c)
    THEN [ c EXCEPT !.create_event_to_send =
               CreateEventToSend(c.db, c.incoming, c.state, c.blocked, c.chat_id) ]
    ELSE c

WithReports(c, acc) == [ c EXCEPT !.db = acc.db, !.rr = acc.rr ]

\* the block "if( carray_count(mime_parser->m_reports) > 0 )"
StageReports(c) ==
    IF c.stop = ""
    THEN WithReports(c, HandleReports([db |-> c.db, rr |-> <<>>], c.m.reports, c.from_id,
                                      c.db.config.mdns_enabled))
    ELSE c

\* whether the transaction is still pending when cleanup is reached
TransactionPending(stop) == stop \in {"duplicate", "failed", "noheader"}

\* a moved path without its rollback; C13_Moved tells it from FinalDb
FinalDbNoRollback(c) ==
    IF c.stop = "moved"
    THEN update_server_uid(c.db, c.rfc724_mid, c.server_folder, c.server_uid)
    ELSE CleanupDb(TransactionPending(c.stop), c.d, c.db)

\* commit or the early rollback, then cleanup: the database left behind
FinalDb(c) ==
    IF c.stop = "moved"
    THEN update_server_uid(c.d, c.rfc724_mid, c.server_folder, c.server_uid)
    ELSE CleanupDb(TransactionPending(c.stop), c.d, c.db)

\* what the call leaves behind: the database, the smeared clock, the events in the order
\* of their emission, and the locals the properties below refer to
Finish(c) ==
    [ db |-> FinalDb(c), work |-> c.db, ls |-> c.ls,
      events |-> c.grp_events \o CreateEvents(c.create_event_to_send, c.entries) \o ReadEvents(c.rr),
      outcome |-> IF c.stop = "" THEN "committed" ELSE c.stop,
      entries |-> c.entries, incoming |-> c.incoming, known |-> c.known, blocked |-> c.blocked,
      from_id |-> c.from_id, to_list |-> c.to_list, chat_id |-> c.chat_id,
      is_group |-> c.is_group, grp_created |-> c.grp_created, n |-> c.n,
      chat_insert |-> c.chat_insert, state |-> c.state, rfc724_mid |-> c.rfc724_mid ]

\* receive_imf: the outcome of one call on database d with smeared clock ls.
\* fail = [chat_ok, at]: whether the INSERT INTO chats succeeds and which INSERT INTO msgs
\* of the call (0: none) hits an i/o error.  The statements run in program order, each on
\* the locals the previous one left.
receive_imf(d, ls, m, server_folder, server_uid, seen, fail) ==
    Finish(StageReports(StageEvent(StageGhosts(StageParts(StageMid(StageTimestamp(StageChat(
        StageGroup(StageCcBcc(StageTo(StageFrom(
            Start(d, ls, m, server_folder, server_uid, seen, fail)))))))))))))

(***************************************************************************)
(* Inputs: the messages the IMAP thread hands to receive_imf               *)
(***************************************************************************)
A == "a@x"
B == "b@x"
C == "c@x"

M1 == <<"m", "1", "@", "h">>
M2 == <<"m", "2", "@", "h">>
G1 == <<"a", "b", "c", "d", "e", "f", "g", "h", "i", "j", "1">>
G2 == <<"a", "b", "c", "d", "e", "f", "g", "h", "i", "j", "2">>
Team == <<EncStart, "T", "e", "a", "m", EncEnd>>

PastDate == 2
FutureDate == 8

\* an incoming text message of a messenger from a@x to the user, no group headers
BaseMsg ==
    [ parsed |-> TRUE, return_path |-> "typed", from |-> <<A>>, to |-> <<SelfAddr>>,
      cc |-> <<>>, bcc |-> <<>>, mid |-> M1, in_reply_to |-> <<>>, references |-> <<>>,
      predecessor |-> NULL, grpid |-> NULL, grpname |-> NULL, remove |-> NullAddr,
      add |-> NullAddr, name_changed |-> FALSE, msgr |-> TRUE, date |-> PastDate,
      parts |-> <<MR_MSG_TEXT>>, reports |-> <<>> ]

\* group headers: none, a new group, a group the user left, the same with the user re-added
GroupHeaders ==
    { [grpid |-> NULL, grpname |-> NULL, add |-> NullAddr],
      [grpid |-> G1, grpname |-> Team, add |-> NullAddr],
      [grpid |-> G1, grpname |-> Team, add |-> C],
      [grpid |-> G2, grpname |-> Team, add |-> NullAddr],
      [grpid |-> G2, grpname |-> Team, add |-> "SELF@X"] }

WithGroup(m, g) == [m EXCEPT !.grpid = g.grpid, !.grpname = g.grpname, !.add = g.add]

\* the combinations of sender, client and group headers that are delivered
IncomingMsgs ==
    { WithGroup([BaseMsg EXCEPT !.from = <<f>>, !.msgr = k], g) :
          f \in {A}, k \in {TRUE}, g \in GroupHeaders }
    \cup { WithGroup([BaseMsg EXCEPT !.from = <<f>>, !.msgr = k], g) :
          f \in {A, B, C}, k \in BOOLEAN,
          g \in {gg \in GroupHeaders : gg.grpid = NULL} }
    \cup { WithGroup([BaseMsg EXCEPT !.from = <<f>>, !.msgr = k], g) :
          f \in {A, B}, k \in BOOLEAN,
          g \in {gg \in GroupHeaders : gg.grpid = G2 /\ gg.add = NullAddr} }
    \cup { [BaseMsg EXCEPT !.parts = <<MR_MSG_TEXT, MR_MSG_IMAGE>>],
           [BaseMsg EXCEPT !.from = <<C>>, !.msgr = FALSE, !.mid = NULL, !.date = FutureDate],
           [BaseMsg EXCEPT !.from = <<C>>, !.grpid = G1, !.grpname = Team],
           [BaseMsg EXCEPT !.msgr = FALSE, !.grpid = G1, !.grpname = Team],
           [BaseMsg EXCEPT !.mid = M2, !.grpid = G1, !.grpname = Team, !.to = <<SelfAddr, B, C>>],
           [BaseMsg EXCEPT !.mid = M2, !.grpid = G1, !.grpname = Team, !.name_changed = TRUE],
           [BaseMsg EXCEPT !.parts = <<>>, !.reports = <<[wellformed |-> TRUE, orig |-> M2]>>],
           [BaseMsg EXCEPT !.reports = <<[wellformed |-> TRUE, orig |-> M2]>>] }

OutMsg(t, k) ==
    [BaseMsg EXCEPT !.return_path = "none", !.from = <<SelfAddr>>, !.to = t, !.mid = M2, !.msgr = k]

OutgoingMsgs ==
    { OutMsg(t, k) : t \in {<<>>, <<A>>, <<A, C, B>>}, k \in BOOLEAN }
    \cup { [OutMsg(t, TRUE) EXCEPT !.grpid = G1, !.grpname = Team] : t \in {<<>>, <<A>>, <<A, C, B>>} }
    \cup { [OutMsg(<<C>>, TRUE) EXCEPT !.mid = M1], [OutMsg(<<A>>, TRUE) EXCEPT !.mid = NULL] }

Messages == IncomingMsgs \cup OutgoingMsgs \cup {[BaseMsg EXCEPT !.parsed = FALSE]}

\* where and how the server holds the message: folder, uid, IMAP_SEEN
Places ==
    { [folder |-> "INBOX", uid |-> 1, seen |-> FALSE],
      [folder |-> "Chats", uid |-> 2, seen |-> TRUE] }

\* i/o errors of the call: the INSERT INTO chats fails, or the at-th INSERT INTO msgs does
MaxFailAt == 3
NoFault == [chat_ok |-> TRUE, at |-> 0]
Faults == {[chat_ok |-> TRUE, at |-> k] : k \in 0..MaxFailAt} \cup {[chat_ok |-> FALSE, at |-> 0]}

(***************************************************************************)
(* Initial databases: a new mailbox, and one in which the user has written *)
(* message M2 to a@x (delivered, found in INBOX under uid 1), blocked b@x   *)
(* and left group G2                                                       *)
(***************************************************************************)
UsedDb ==
    [ EmptyDb EXCEPT
        !.contacts = << [addr |-> A, origin |-> "OUTGOING_TO", blocked |-> FALSE],
                        [addr |-> B, origin |-> "OUTGOING_TO", blocked |-> TRUE] >>,
        !.chats = << [type |-> MR_CHAT_NORMAL, name |-> <<A>>, grpid |-> <<>>] >>,
        !.chats_contacts = { <<ChatIdOf(1), ContactIdOf(1)>> },
        !.msgs = << [ rfc724_mid |-> M2, server_folder |-> "INBOX", server_uid |-> 1,
                      chat_id |-> ChatIdOf(1), from_id |-> MR_CONTACT_ID_SELF,
                      to_id |-> ContactIdOf(1), timestamp |-> 1, type |-> MR_MSG_TEXT,
                      state |-> MR_OUT_DELIVERED, msgrmsg |-> TRUE, txt |-> <<MR_MSG_TEXT>>,
                      param |-> <<>> ] >>,
        !.leftgrps = {G2} ]

(***************************************************************************)
(* A mailbox with groups: on top of the above, c@x and d@x are contacts,   *)
(* "Team" (G1) has the members SELF, a@x, c@x, "Big" (G3) has SELF, a@x,   *)
(* c@x, d@x, and "Gone" (G4) has a@x and c@x, the user having been removed *)
(***************************************************************************)
D == "d@x"
E == "e@x"
F == "f@x"
G3 == <<"a", "b", "c", "d", "e", "f", "g", "h", "i", "j", "3">>
G4 == <<"a", "b", "c", "d", "e", "f", "g", "h", "i", "j", "4">>
G5 == <<"a", "b", "c", "d", "e", "f", "g", "h", "i", "j", "5">>

GroupDb ==
    [ UsedDb EXCEPT
        !.contacts = @ \o << [addr |-> C, origin |-> "OUTGOING_TO", blocked |-> FALSE],
                             [addr |-> D, origin |-> "INCOMING_TO", blocked |-> FALSE] >>,
        !.chats = @ \o << [type |-> MR_CHAT_GROUP, name |-> <<"T", "e", "a", "m">>, grpid |-> G1],
                          [type |-> MR_CHAT_GROUP, name |-> <<"B", "i", "g">>, grpid |-> G3],
                          [type |-> MR_CHAT_GROUP, name |-> <<"G", "o", "n", "e">>, grpid |-> G4] >>,
        !.chats_contacts = @ \cup
            { <<ChatIdOf(2), MR_CONTACT_ID_SELF>>, <<ChatIdOf(2), ContactIdOf(1)>>,
              <<ChatIdOf(2), ContactIdOf(3)>>,
              <<ChatIdOf(3), MR_CONTACT_ID_SELF>>, <<ChatIdOf(3), ContactIdOf(1)>>,
              <<ChatIdOf(3), ContactIdOf(3)>>, <<ChatIdOf(3), ContactIdOf(4)>>,
              <<ChatIdOf(4), ContactIdOf(1)>>, <<ChatIdOf(4), ContactIdOf(3)>> } ]

\* a Message-ID that carries the group id g, and two that carry an id of the wrong length
GrMid(g) == <<"G", "r", ".">> \o g \o <<".", "x", "@", "h">>
ShortGrMid == GrMid(SubSeq(G1, 1, MR_VALID_ID_LEN - 1))
LongGrMid == GrMid(G1 \o <<"9">>)

\* a group name of n characters
NameOfLen(n) == [i \in 1..n |-> "n"]
Renamed == <<"N", "e", "w">>

\* group messages with commands: every sender and client, with every group id header,
\* name, Added, Removed and Name-Changed header
CommandMsgs ==
    { [BaseMsg EXCEPT !.return_path = s.return_path, !.from = s.from, !.to = t,
                      !.grpid = g, !.grpname = n, !.add = a, !.remove = r,
                      !.name_changed = nc, !.msgr = k, !.mid = GrMid(G1)] :
          s \in { [return_path |-> "typed", from |-> <<f>>] : f \in {A, B, D, E} }
                \cup { [return_path |-> "none", from |-> <<SelfAddr>>] },
          t \in { <<SelfAddr>>, <<C>>, <<SelfAddr, C, D>> },
          g \in {G1, G3, G4, G2, G5},
          n \in {NULL, Team, Renamed},
          a \in {NullAddr, D, "SELF@X"},
          r \in {NullAddr, C, SelfAddr},
          nc \in BOOLEAN, k \in BOOLEAN }

\* messages of a@x that carry group ids in Chat-Group-ID, Message-ID, In-Reply-To and
\* References, well-formed or not
GrpidMsgs ==
    { [BaseMsg EXCEPT !.grpid = g, !.mid = mid, !.in_reply_to = irt, !.references = ref,
                      !.grpname = Team] :
          g \in {NULL, G1},
          mid \in {M1, NULL, GrMid(G3), ShortGrMid, LongGrMid, <<"G", "r", ".">> \o G3},
          irt \in { <<>>, <<M2, GrMid(G4)>>, <<GrMid(G1), GrMid(G3)>>, <<LongGrMid>> },
          ref \in { <<>>, <<M2, ShortGrMid, GrMid(G5)>>, <<GrMid(G3)>> } }

\* Name-Changed messages with names around the limit
RenameMsgs ==
    { [BaseMsg EXCEPT !.grpid = G1, !.grpname = NameOfLen(n), !.name_changed = TRUE,
                      !.add = a, !.remove = r] :
          n \in (GrpNameLimit - 1)..(GrpNameLimit + 1),
          a \in {NullAddr, D}, r \in {NullAddr, C} }

\* messages with several From: mailboxes, with Cc: and Bcc:, and with the Return-Path
\* in its two forms or missing
AddressMsgs ==
    { [BaseMsg EXCEPT !.return_path = rp, !.from = f, !.to = t, !.cc = cc, !.bcc = bcc] :
          rp \in {"typed", "optional", "none"},
          f \in { <<A>>, <<E>>, <<SelfAddr>>, <<SelfAddr, A>>, <<A, SelfAddr>>, <<E, "SELF@X", A>> },
          t \in { <<SelfAddr>>, <<C>> },
          cc \in { <<>>, <<F>>, <<D>> },
          bcc \in { <<>>, <<F>> } }

\* messages without group id: of every sender and client, as replies to the known message
\* M2 or to an unknown one; and outgoing ones to contacts with and without a chat
M3 == <<"m", "3", "@", "h">>

ChatMsgs ==
    { [BaseMsg EXCEPT !.from = <<f>>, !.msgr = k, !.in_reply_to = re.in_reply_to,
                      !.references = re.references, !.predecessor = re.predecessor] :
          f \in {A, B, D, E}, k \in BOOLEAN,
          re \in { [in_reply_to |-> <<>>, references |-> <<>>, predecessor |-> NULL],
                   [in_reply_to |-> <<M3, M2>>, references |-> <<>>, predecessor |-> NULL],
                   [in_reply_to |-> <<>>, references |-> <<M2>>, predecessor |-> NULL],
                   [in_reply_to |-> <<>>, references |-> <<>>, predecessor |-> M2],
                   [in_reply_to |-> <<M3>>, references |-> <<M3>>, predecessor |-> M3] } }
    \cup { [OutMsg(t, k) EXCEPT !.mid = M1] :
              t \in { <<>>, <<SelfAddr>>, <<A>>, <<B>>, <<D>>, <<B, D>>, <<F>>, <<D, A>> },
              k \in BOOLEAN }

GroupMessages == CommandMsgs \cup GrpidMsgs \cup RenameMsgs \cup AddressMsgs \cup ChatMsgs

(***************************************************************************)
(* The wake lock: mrmailbox_wake_lock and mrmailbox_wake_unlock, called    *)
(* from several threads, one statement per step                            *)
(***************************************************************************)
NumWakeThreads == 2
MaxWakeCalls == 4
WakeThreads == 1..NumWakeThreads

\* mrmailbox_new: the structure is zeroed and the mutex initialised
WakeStart ==
    /\ m_wake_lock = 0
    /\ wake_mutex = 0
    /\ wake_pc = [t \in WakeThreads |-> "idle"]
    /\ wake_events = <<>>
    /\ wake_hist = [calls |-> 0, owed |-> 0, up |-> 0, down |-> 0]

\* a mutex that never blocks; C15_WakeLock tells it from MutexFree
MutexNeverBlocks(holder) == TRUE

\* pthread_mutex_lock returns only when no thread holds the mutex
MutexFree(holder) == holder = 0

\* a thread calls fn ("lock" or "unlock"); with mailbox == NULL the call returns at once.
\* An unlock is only called for a lock that has returned and was not given back yet.
WakeCall(t, fn, mailbox_null) ==
    /\ wake_pc[t] = "idle"
    /\ wake_hist.calls < MaxWakeCalls
    /\ (fn = "unlock" /\ ~mailbox_null) => wake_hist.owed > 0
    /\ wake_pc' = IF mailbox_null THEN wake_pc ELSE [wake_pc EXCEPT ![t] = fn]
    /\ wake_hist' = [wake_hist EXCEPT !.calls = @ + 1,
                                      !.owed = IF fn = "unlock" /\ ~mailbox_null THEN @ - 1 ELSE @]
    /\ UNCHANGED <<m_wake_lock, wake_mutex, wake_events>>

\* a thread calls mrmailbox_wake_unlock although no lock is outstanding: nothing in the
\* function tells this call from a matched one
WakeCallUnmatched(t) ==
    /\ wake_pc[t] = "idle"
    /\ wake_hist.calls < MaxWakeCalls
    /\ wake_hist.owed = 0
    /\ wake_pc' = [wake_pc EXCEPT ![t] = "unlock"]
    /\ wake_hist' = [wake_hist EXCEPT !.calls = @ + 1]
    /\ UNCHANGED <<m_wake_lock, wake_mutex, wake_events>>

\* pthread_mutex_lock(&mailbox->m_wake_lock_critical), in either function
WakeMutexLock(t) ==
    /\ wake_pc[t] \in {"lock", "unlock"}
    /\ MutexFree(wake_mutex)
    /\ wake_mutex' = t
    /\ wake_pc' = [wake_pc EXCEPT ![t] = IF @ = "lock" THEN "lock_inc" ELSE "unlock_test"]
    /\ UNCHANGED <<m_wake_lock, wake_events, wake_hist>>

\* mrmailbox_wake_lock: mailbox->m_wake_lock++
WakeLockInc(t) ==
    /\ wake_pc[t] = "lock_inc"
    /\ m_wake_lock' = m_wake_lock + 1
    /\ wake_hist' = [wake_hist EXCEPT !.up = IF m_wake_lock = 0 THEN @ + 1 ELSE @]
    /\ wake_pc' = [wake_pc EXCEPT ![t] = "lock_test"]
    /\ UNCHANGED <<wake_mutex, wake_events>>

\* mrmailbox_wake_lock: if( m_wake_lock == 1 ) m_cb(MR_EVENT_WAKE_LOCK, 1, 0)
WakeLockTest(t) ==
    /\ wake_pc[t] = "lock_test"
    /\ wake_events' = IF m_wake_lock = 1 THEN Append(wake_events, 1) ELSE wake_events
    /\ wake_pc' = [wake_pc EXCEPT ![t] = "lock_leave"]
    /\ UNCHANGED <<m_wake_lock, wake_mutex, wake_hist>>

\* mrmailbox_wake_unlock: if( m_wake_lock == 1 ) m_cb(MR_EVENT_WAKE_LOCK, 0, 0)
WakeUnlockTest(t) ==
    /\ wake_pc[t] = "unlock_test"
    /\ wake_events' = IF m_wake_lock = 1 THEN Append(wake_events, 0) ELSE wake_events
    /\ wake_pc' = [wake_pc EXCEPT ![t] = "unlock_dec"]
    /\ UNCHANGED <<m_wake_lock, wake_mutex, wake_hist>>

\* mrmailbox_wake_unlock: mailbox->m_wake_lock--
WakeUnlockDec(t) ==
    /\ wake_pc[t] = "unlock_dec"
    /\ m_wake_lock' = m_wake_lock - 1
    /\ wake_hist' = [wake_hist EXCEPT !.down = IF m_wake_lock = 1 THEN @ + 1 ELSE @]
    /\ wake_pc' = [wake_pc EXCEPT ![t] = "unlock_leave"]
    /\ UNCHANGED <<wake_mutex, wake_events>>

\* pthread_mutex_unlock(&mailbox->m_wake_lock_critical) and return, in either function
WakeMutexUnlock(t) ==
    /\ wake_pc[t] \in {"lock_leave", "unlock_leave"}
    /\ wake_mutex' = 0
    /\ wake_hist' = [wake_hist EXCEPT !.owed = IF wake_pc[t] = "lock_leave" THEN @ + 1 ELSE @]
    /\ wake_pc' = [wake_pc EXCEPT ![t] = "idle"]
    /\ UNCHANGED <<m_wake_lock, wake_events>>

(***************************************************************************)
(* The public routines of the mailbox as sequences of operations on the    *)
(* database lock and the database: "lock", "unlock", "begin", "commit",    *)
(* "rollback", and "db" for any other call of a must-be-locked function    *)
(***************************************************************************)
\* both threads outside the routines: main and job are the positions of the caller thread
\* and of the job thread, row tells whether the jobs row the job thread is executing still
\* exists, retry whether mrjob_try_again_later was called for it, settled whether
\* mrmailbox_disconnect has returned and mrmailbox_connect was not called since, calls and
\* runs count the calls of the caller thread and the jobs the job thread has started
ThreadsIdle ==
    [main |-> "idle", job |-> "idle", row |-> FALSE, retry |-> FALSE, settled |-> FALSE,
     calls |-> 0, runs |-> 0]

\* mrmailbox_new: nothing is open, connected, configured or queued
LockStart ==
    /\ lk_open = FALSE
    /\ lk_imap = FALSE
    /\ lk_configured = FALSE
    /\ lk_job = FALSE
    /\ lk_last = [routine |-> "none", trace |-> <<>>]
    /\ lk_pc = ThreadsIdle

\* receive_imf, by the way it ends
ReceiveImfTrace(outcome) ==
    IF outcome = "noheader" THEN <<>>
    ELSE <<"lock", "begin", "db">>
         \o (IF outcome = "moved" THEN <<"rollback", "db">>
             ELSE IF outcome = "committed" THEN <<"db", "commit">>
             ELSE <<"rollback">>)
         \o <<"unlock">>

\* mrmailbox_open
OpenTrace(is_open, dbfile_null, open_ok) ==
    IF dbfile_null THEN (IF is_open THEN <<"db">> ELSE <<>>)
    ELSE <<"lock", "db">>
         \o (IF open_ok \/ is_open THEN <<"db">> ELSE <<>>)
         \o <<"unlock">>

\* mrmailbox_connect_to_imap
ConnectToImapTrace(connected, configured) ==
    IF connected THEN <<>>
    ELSE IF ~configured THEN <<"lock", "db", "unlock">>
    ELSE <<"lock", "db", "db", "unlock">>

\* cb_receive_imf / mrmailbox_poke_eml_file
LkReceiveImf(outcome) ==
    /\ lk_last' = [routine |-> "receive_imf", trace |-> ReceiveImfTrace(outcome)]
    /\ UNCHANGED <<lk_pc, lk_open, lk_imap, lk_configured, lk_job>>

\* mrmailbox_open: dbfile may be NULL, mrsqlite3_open__ may fail
LkOpen(dbfile_null, open_ok) ==
    /\ lk_last' = [routine |-> "open", trace |-> OpenTrace(lk_open, dbfile_null, open_ok)]
    /\ lk_open' = (~dbfile_null /\ open_ok)
    /\ lk_job' = IF ~dbfile_null /\ open_ok THEN FALSE ELSE lk_job
    /\ UNCHANGED <<lk_pc, lk_imap, lk_configured>>

\* mrmailbox_close
LkClose ==
    /\ lk_last' = [routine |-> "close",
                   trace |-> <<"lock">> \o (IF lk_open THEN <<"db">> ELSE <<>>) \o <<"unlock">>]
    /\ lk_open' = FALSE
    /\ lk_imap' = FALSE
    /\ UNCHANGED <<lk_pc, lk_configured, lk_job>>

\* mrmailbox_set_config, _get_config, _set_config_int, _get_config_int; a NULL key returns
\* before the lock; set_config_int("configured", value) is the write the model follows
LkConfig(fn, key_null, value) ==
    /\ lk_last' = [routine |-> fn,
                   trace |-> IF key_null THEN <<>> ELSE <<"lock", "db", "unlock">>]
    /\ lk_configured' = IF fn = "set_config_int" /\ ~key_null THEN value # 0 ELSE lk_configured
    /\ UNCHANGED <<lk_pc, lk_open, lk_imap, lk_job>>

\* mrmailbox_get_info
LkGetInfo ==
    /\ lk_last' = [routine |-> "get_info", trace |-> <<"lock", "db", "unlock">>]
    /\ UNCHANGED <<lk_pc, lk_open, lk_imap, lk_configured, lk_job>>

\* mrmailbox_reset_tables: bit 1 deletes the jobs, bit 8 the configured* keys
LkResetTables(bits) ==
    /\ lk_last' = [routine |-> "reset_tables",
                   trace |-> <<"lock">> \o (IF bits % 16 # 0 THEN <<"db">> ELSE <<>>) \o <<"unlock">>]
    /\ lk_job' = IF bits % 2 = 1 THEN FALSE ELSE lk_job
    /\ lk_configured' = IF (bits \div 8) % 2 = 1 THEN FALSE ELSE lk_configured
    /\ UNCHANGED <<lk_pc, lk_open, lk_imap>>

\* a routine that connects whether or not the mailbox is configured
ConnectAlways(connected, configured) == ~connected

\* mrmailbox_connect_to_imap reaches mrimap_connect
ConnectAttempted(connected, configured) == ~connected /\ configured

\* mrjob_try_again_later(job, MR_STANDARD_DELAY) when mrimap_connect returns 0
ConnectRetry(attempted, connect_ok) ==
    IF attempted /\ ~connect_ok THEN "MR_STANDARD_DELAY" ELSE "none"

\* mrmailbox_connect_to_imap: mrimap_connect may fail
LkConnectToImap(connect_ok) ==
    /\ lk_last' = [routine |-> "connect_to_imap",
                   trace |-> ConnectToImapTrace(lk_imap, lk_configured),
                   connected |-> lk_imap, configured |-> lk_configured,
                   connect_ok |-> connect_ok,
                   attempted |-> ConnectAttempted(lk_imap, lk_configured),
                   try_again |-> ConnectRetry(ConnectAttempted(lk_imap, lk_configured),
                                              connect_ok)]
    /\ lk_imap' = (lk_imap \/ (ConnectAttempted(lk_imap, lk_configured) /\ connect_ok))
    /\ UNCHANGED <<lk_pc, lk_open, lk_configured, lk_job>>

\* mrmailbox_connect
LkConnect ==
    /\ lk_last' = [routine |-> "connect", trace |-> <<"lock", "db", "db", "unlock">>]
    /\ lk_job' = TRUE
    /\ UNCHANGED <<lk_pc, lk_open, lk_imap, lk_configured>>

\* mrmailbox_disconnect
LkDisconnect ==
    /\ lk_last' = [routine |-> "disconnect", trace |-> <<"lock", "db", "unlock">>]
    /\ lk_job' = FALSE
    /\ lk_imap' = FALSE
    /\ UNCHANGED <<lk_pc, lk_open, lk_configured>>

(***************************************************************************)
(* mrmailbox_connect and mrmailbox_disconnect on the caller thread against *)
(* mrmailbox_connect_to_imap on the job thread.  What a routine does       *)
(* between mrsqlite3_lock and mrsqlite3_unlock is one step: the lock keeps *)
(* the other thread out of it.  mrimap_connect and mrimap_disconnect are   *)
(* called without the lock and are steps of their own.                     *)
(***************************************************************************)
MaxThreadCalls == 3
MaxJobRuns == 2

\* mrmailbox_connect: mrjob_kill_action__ and mrjob_add__ under the lock
ThConnect ==
    /\ lk_pc.main = "idle" /\ lk_pc.calls < MaxThreadCalls
    /\ lk_job' = TRUE
    /\ lk_pc' = [lk_pc EXCEPT !.row = FALSE, !.settled = FALSE, !.calls = @ + 1]
    /\ UNCHANGED <<lk_open, lk_imap, lk_configured, lk_last>>

\* mrmailbox_disconnect: mrjob_kill_action__ under the lock
ThDisconnectKill ==
    /\ lk_pc.main = "idle" /\ lk_pc.calls < MaxThreadCalls
    /\ lk_job' = FALSE
    /\ lk_pc' = [lk_pc EXCEPT !.main = "imap_disconnect", !.row = FALSE, !.calls = @ + 1]
    /\ UNCHANGED <<lk_open, lk_imap, lk_configured, lk_last>>

\* mrmailbox_disconnect: mrimap_disconnect, mrsmtp_disconnect and return
ThDisconnectImap ==
    /\ lk_pc.main = "imap_disconnect"
    /\ lk_imap' = FALSE
    /\ lk_pc' = [lk_pc EXCEPT !.main = "idle", !.settled = TRUE]
    /\ UNCHANGED <<lk_open, lk_configured, lk_job, lk_last>>

\* the job thread takes the pending MRJ_CONNECT_TO_IMAP job and calls
\* mrmailbox_connect_to_imap with it
ThJobStart ==
    /\ lk_pc.job = "idle" /\ lk_job /\ lk_pc.runs < MaxJobRuns
    /\ lk_pc' = [lk_pc EXCEPT !.job = "is_connected", !.row = TRUE, !.retry = FALSE,
                              !.runs = @ + 1]
    /\ UNCHANGED <<lk_open, lk_imap, lk_configured, lk_job, lk_last>>

\* mrmailbox_connect_to_imap: if( mrimap_is_connected(ths->m_imap) ) goto cleanup
ThIsConnected ==
    /\ lk_pc.job = "is_connected"
    /\ lk_pc' = [lk_pc EXCEPT !.job = IF lk_imap THEN "return" ELSE "configured"]
    /\ UNCHANGED <<lk_open, lk_imap, lk_configured, lk_job, lk_last>>

\* mrmailbox_connect_to_imap: the test of "configured" and mrloginparam_read__ under the lock
ThConfigured ==
    /\ lk_pc.job = "configured"
    /\ lk_pc' = [lk_pc EXCEPT !.job = IF lk_configured THEN "imap_connect" ELSE "return"]
    /\ UNCHANGED <<lk_open, lk_imap, lk_configured, lk_job, lk_last>>

\* mrmailbox_connect_to_imap: mrimap_connect, and mrjob_try_again_later when it fails
ThImapConnect(connect_ok) ==
    /\ lk_pc.job = "imap_connect"
    /\ lk_imap' = (lk_imap \/ connect_ok)
    /\ lk_pc' = [lk_pc EXCEPT !.job = "return",
                              !.retry = (ConnectRetry(TRUE, connect_ok) # "none")]
    /\ UNCHANGED <<lk_open, lk_configured, lk_job, lk_last>>

\* mrmailbox_connect_to_imap returns to the job thread: the row of the job, if it was not
\* killed meanwhile, is kept for the retry or deleted
ThJobReturn ==
    /\ lk_pc.job = "return"
    /\ lk_job' = IF lk_pc.row THEN lk_pc.retry ELSE lk_job
    /\ lk_pc' = [lk_pc EXCEPT !.job = "idle", !.row = FALSE]
    /\ UNCHANGED <<lk_open, lk_imap, lk_configured, lk_last>>

(***************************************************************************)
(* dc_pgp.c: text is a sequence of characters; LF, CR and TAB stand for    *)
(* '\n', '\r' and '\t', NULL for a pointer that was not set                 *)
(***************************************************************************)
LF == "LF"
CR == "CR"
TAB == "TAB"
PGP_WS == {TAB, CR, LF, " "}

UpperCase == <<"A", "B", "C", "D", "E", "F", "G", "H", "I", "J", "K", "L", "M", "N", "O", "P", "Q", "R", "S", "T", "U", "V", "W", "X", "Y", "Z">>
LowerCase == <<"a", "b", "c", "d", "e", "f", "g", "h", "i", "j", "k", "l", "m", "n", "o", "p", "q", "r", "s", "t", "u", "v", "w", "x", "y", "z">>

tolower(c) == IF \E i \in 1..26 : UpperCase[i] = c
              THEN LowerCase[CHOOSE i \in 1..26 : UpperCase[i] = c]
              ELSE c

\* strcasecmp(a, b) == 0
strcasecmp0(a, b) ==
    /\ Len(a) = Len(b)
    /\ \A i \in 1..Len(a) : tolower(a[i]) = tolower(b[i])

\* strncmp(s + i - 1, pat, strlen(pat)) == 0
StartsWith(s, i, pat) ==
    /\ i >= 1
    /\ i + Len(pat) - 1 <= Len(s)
    /\ SubSeq(s, i, i + Len(pat) - 1) = pat

\* strstr(s + i - 1, pat): the index of the first match at or after i, 0 if none
StrStr(s, i, pat) ==
    IF \E k \in i..Len(s) : StartsWith(s, k, pat)
    THEN CHOOSE k \in i..Len(s) :
             StartsWith(s, k, pat) /\ \A j \in i..(k - 1) : ~StartsWith(s, j, pat)
    ELSE 0

\* the index of the first '\n' at or after p1, 0 if there is none
NextLineEnd(buf, p1) ==
    IF \E k \in p1..Len(buf) : buf[k] = LF
    THEN CHOOSE k \in p1..Len(buf) : buf[k] = LF /\ \A j \in p1..(k - 1) : buf[j] # LF
    ELSE 0

\* dc_remove_cr_chars
dc_remove_cr_chars(buf) == SelectSeq(buf, LAMBDA c : c # CR)

RECURSIVE TrimLeft(_)
TrimLeft(s) == IF s # <<>> /\ Head(s) \in PGP_WS THEN TrimLeft(Tail(s)) ELSE s

RECURSIVE TrimRight(_)
TrimRight(s) == IF s # <<>> /\ s[Len(s)] \in PGP_WS THEN TrimRight(SubSeq(s, 1, Len(s) - 1)) ELSE s

\* dc_trim: white space taken off both ends
dc_trim(s) == TrimRight(TrimLeft(s))

ArmorBegin == <<"-", "-", "-", "-", "-", "B", "E", "G", "I", "N", " ">>
ArmorEndMark == <<"-", "-", "-", "-", "-", "E", "N", "D", " ">>
ArmorDashes == <<"-", "-", "-", "-", "-">>
PassphraseBegin == <<"P", "a", "s", "s", "p", "h", "r", "a", "s", "e", "-", "B", "e", "g", "i", "n">>
AutocryptPreferEncrypt == <<"A", "u", "t", "o", "c", "r", "y", "p", "t", "-", "P", "r", "e", "f", "e", "r", "-", "E", "n", "c", "r", "y", "p", "t">>

\* strncmp(line, "-----BEGIN ", 11)==0 && strncmp(&line[strlen(line)-5], "-----", 5)==0
IsHeaderline(line) ==
    StartsWith(line, 1, ArmorBegin) /\ StartsWith(line, Len(line) - 4, ArmorDashes)

\* the locals of dc_split_armored_data before the first line; base64 is an index into
\* the buffer, 0 for NULL
ArmorStart == [headerline |-> NULL, setupcodebegin |-> NULL, preferencrypt |-> NULL, base64 |-> 0]

\* a header that compares the names as they are; C19_Headers tells it from ArmorHeader
ArmorHeaderExact(st, name, value) ==
    IF name = PassphraseBegin THEN [st EXCEPT !.setupcodebegin = value]
    ELSE IF name = AutocryptPreferEncrypt THEN [st EXCEPT !.preferencrypt = value]
    ELSE st

\* "header line": the trimmed name before the ':' and the trimmed value after it
ArmorHeader(st, name, value) ==
    IF strcasecmp0(name, PassphraseBegin) THEN [st EXCEPT !.setupcodebegin = value]
    ELSE IF strcasecmp0(name, AutocryptPreferEncrypt) THEN [st EXCEPT !.preferencrypt = value]
    ELSE st

\* "line found": l is the line that starts at index line and ends before the '\n' at p1
ArmorLine(st, l, line, p1) ==
    IF st.headerline = NULL
    THEN IF IsHeaderline(dc_trim(l)) THEN [st EXCEPT !.headerline = dc_trim(l)] ELSE st
    ELSE IF \A i \in 1..Len(l) : l[i] \in PGP_WS THEN [st EXCEPT !.base64 = p1 + 1]
    ELSE IF StrChr(l, ":", 1) = 0 THEN [st EXCEPT !.base64 = line]
    ELSE ArmorHeader(st, dc_trim(SubSeq(l, 1, StrChr(l, ":", 1) - 1)),
                         dc_trim(SubSeq(l, StrChr(l, ":", 1) + 1, Len(l))))

\* while (*p1): the loop over the buffer from the start of a line on; it ends with the
\* buffer or with the break once base64 is set
RECURSIVE ArmorScan(_, _, _)
ArmorScan(buf, line, st) ==
    IF NextLineEnd(buf, line) = 0 \/ st.base64 # 0 THEN st
    ELSE ArmorScan(buf, NextLineEnd(buf, line) + 1,
                   ArmorLine(st, SubSeq(buf, line, NextLineEnd(buf, line) - 1), line,
                             NextLineEnd(buf, line)))

\* what the caller gets: the return value and the four pointers
ArmorResult(success, st, base64) ==
    [ success |-> success, headerline |-> st.headerline, setupcodebegin |-> st.setupcodebegin,
      preferencrypt |-> st.preferencrypt, base64 |-> base64 ]

\* an end that accepts any END tag; C17_BeginEnd tells it from ArmorEnd
ArmorEndAnyTag(buf, st, p1) ==
    IF st.headerline = NULL \/ st.base64 = 0 THEN ArmorResult(FALSE, st, NULL)
    ELSE IF p1 = 0 THEN ArmorResult(FALSE, st, NULL)
    ELSE ArmorResult(TRUE, st, dc_trim(SubSeq(buf, st.base64, p1 - 1)))

\* after the loop: p1 is where strstr found "-----END " from base64 on, 0 if nowhere
ArmorEnd(buf, st, p1) ==
    IF st.headerline = NULL \/ st.base64 = 0 THEN ArmorResult(FALSE, st, NULL)
    ELSE IF \/ p1 = 0
            \/ ~StartsWith(buf, p1 + 9, SubSeq(st.headerline, 12, Len(st.headerline)))
         THEN ArmorResult(FALSE, st, NULL)
    ELSE ArmorResult(TRUE, st, dc_trim(SubSeq(buf, st.base64, p1 - 1)))

ArmorFinish(buf, st) ==
    ArmorEnd(buf, st, IF st.base64 = 0 THEN 0 ELSE StrStr(buf, st.base64, ArmorEndMark))

\* dc_split_armored_data(buf, &headerline, &setupcodebegin, &preferencrypt, &base64)
dc_split_armored_data(buf) ==
    IF buf = NULL THEN ArmorResult(FALSE, ArmorStart, NULL)
    ELSE ArmorFinish(dc_remove_cr_chars(buf), ArmorScan(dc_remove_cr_chars(buf), 1, ArmorStart))

\* the lines the buffers are made of
ArmorLines ==
    { <<"-", "-", "-", "-", "-", "B", "E", "G", "I", "N", " ", "X", "-", "-", "-", "-", "-">>,
      <<" ", "-", "-", "-", "-", "-", "B", "E", "G", "I", "N", " ", "X", "-", "-", "-", "-", "-", CR>>,
      <<"-", "-", "-", "-", "-", "E", "N", "D", " ", "X", "-", "-", "-", "-", "-">>,
      <<"-", "-", "-", "-", "-", "E", "N", "D", " ", "Y", "-", "-", "-", "-", "-">>,
      <<>>,
      <<" ", TAB>>,
      <<"A", "A">>,
      <<"V", ":", " ", "1">>,
      <<"a", "u", "t", "o", "c", "r", "y", "p", "t", "-", "p", "r", "e", "f", "e", "r", "-", "e", "n", "c", "r", "y", "p", "t", " ", ":", " ", "m", " ">>,
      <<"P", "a", "s", "s", "p", "h", "r", "a", "s", "e", "-", "B", "e", "g", "i", "n", ":", "1", "2">> }

MaxArmorLines == 3

RECURSIVE ArmorTexts(_)
ArmorTexts(n) ==
    IF n = 0 THEN {<<>>}
    ELSE ArmorTexts(n - 1) \cup { t \o l \o <<LF>> : t \in ArmorTexts(n - 1), l \in ArmorLines }

\* a BEGIN line, one header line, a separator or none, a body and an END line
ArmorMessages ==
    { b \o <<LF>> \o h \o <<LF>> \o sep \o <<"A", "A", LF>> \o e :
         b \in { l \in ArmorLines : IsHeaderline(dc_trim(dc_remove_cr_chars(l))) },
         h \in { l \in ArmorLines : StrChr(l, ":", 1) # 0 },
         sep \in { <<>>, <<LF>>, <<" ", TAB, LF>> },
         e \in { l \in ArmorLines : StartsWith(l, 1, ArmorEndMark) } }

\* the armored message of the Autocrypt example
ArmorExample ==
    <<"-", "-", "-", "-", "-", "B", "E", "G", "I", "N", " ", "P", "G", "P", " ", "M", "E", "S", "S", "A", "G", "E", "-", "-", "-", "-", "-", LF>>
    \o <<"V", "e", "r", "s", "i", "o", "n", ":", " ", "1", LF>>
    \o <<"A", "u", "t", "o", "c", "r", "y", "p", "t", "-", "P", "r", "e", "f", "e", "r", "-", "E", "n", "c", "r", "y", "p", "t", ":", " ", "m", "u", "t", "u", "a", "l", LF>>
    \o <<LF>>
    \o <<"A", "A", "A", "A", LF>>
    \o <<"-", "-", "-", "-", "-", "E", "N", "D", " ", "P", "G", "P", " ", "M", "E", "S", "S", "A", "G", "E", "-", "-", "-", "-", "-">>

\* buffers handed to dc_split_armored_data: up to MaxArmorLines lines, the last one with
\* or without its line end, whole messages, the example, and no buffer at all
ArmorInputs ==
    ArmorTexts(MaxArmorLines)
    \cup { SubSeq(t, 1, Len(t) - 1) : t \in ArmorTexts(MaxArmorLines) \ {<<>>} }
    \cup ArmorMessages
    \cup { ArmorExample, NULL }

(***************************************************************************)
(* dc_pgp_pk_decrypt in its two builds.  The input says what the engine    *)
(* makes of the arguments; the caller's plaintext pointer starts out as    *)
(* "caller", its length as -1 and its fingerprint collector empty          *)
(***************************************************************************)
\* the caller's outputs before the call
DecryptStart == [success |-> FALSE, plain |-> "caller", plain_bytes |-> -1, fingerprints |-> {}]

\* *ret_plain = NULL; *ret_plain_bytes = 0
DecryptCleared == [DecryptStart EXCEPT !.plain = "NULL", !.plain_bytes = 0]

\* the plaintext handed over
DecryptPlain(r) == [r EXCEPT !.plain = "plaintext", !.plain_bytes = 9]

\* netpgp, "collect the keys of the valid signatures": signature i of sigs is "nokey"
\* (pgp_getkeybyid finds nothing), "bad" (pgp_fingerprint fails) or "good"
RECURSIVE CollectNetpgp(_, _, _)
CollectNetpgp(r, sigs, i) ==
    IF i > Len(sigs) THEN [r EXCEPT !.success = TRUE]
    ELSE IF sigs[i] = "nokey" THEN CollectNetpgp(r, sigs, i + 1)
    ELSE IF sigs[i] = "bad" THEN r
    ELSE CollectNetpgp([r EXCEPT !.fingerprints = @ \cup {i}], sigs, i + 1)

\* rpgp, "collect the keys of the valid signatures": valid_ids_ptr[i] may be NULL
CollectRpgp(r, sigs) ==
    [r EXCEPT !.success = TRUE,
              !.fingerprints = @ \cup { i \in 1..Len(sigs) : sigs[i] = "good" }]

\* dc_pgp_pk_decrypt without DC_USE_RPGP
dc_pgp_pk_decrypt_netpgp(in) ==
    IF ~in.args_ok THEN DecryptStart
    ELSE IF ~in.private_ok THEN DecryptCleared
    ELSE IF ~in.decrypt_ok THEN DecryptCleared
    ELSE IF ~in.collector THEN [DecryptPlain(DecryptCleared) EXCEPT !.success = TRUE]
    ELSE CollectNetpgp(DecryptPlain(DecryptCleared), in.sigs, 1)

\* dc_pgp_pk_decrypt with DC_USE_RPGP
dc_pgp_pk_decrypt_rpgp(in) ==
    IF ~in.args_ok \/ ~in.use_armor THEN DecryptStart
    ELSE IF ~in.private_ok \/ ~in.public_ok THEN DecryptCleared
    ELSE IF ~in.decrypt_ok \/ ~in.bytes_ok THEN DecryptCleared
    ELSE IF ~in.collector THEN [DecryptPlain(DecryptCleared) EXCEPT !.success = TRUE]
    ELSE CollectRpgp(DecryptPlain(DecryptCleared), in.sigs)

dc_pgp_pk_decrypt(in) ==
    IF in.rpgp THEN dc_pgp_pk_decrypt_rpgp(in) ELSE dc_pgp_pk_decrypt_netpgp(in)

MaxSigs == 2

\* the valid signatures the engine reports, at most MaxSigs of them
SigLists ==
    UNION { [1..n -> {"nokey", "bad", "good"}] : n \in 0..MaxSigs }

DecryptInputs ==
    [ rpgp : BOOLEAN, args_ok : BOOLEAN, use_armor : BOOLEAN, private_ok : BOOLEAN,
      public_ok : BOOLEAN, decrypt_ok : BOOLEAN, bytes_ok : BOOLEAN, collector : BOOLEAN,
      sigs : SigLists ]

\* no dc_pgp function was called yet
PgpStart == pgp_in = [fn |-> "none"] /\ pgp_out = [fn |-> "none"]

\* one call of dc_split_armored_data on the buffer chosen at the start
SplitArmoredData ==
    /\ pgp_in.fn = "dc_split_armored_data"
    /\ pgp_out.fn = "none"
    /\ pgp_out' = [fn |-> pgp_in.fn, r |-> dc_split_armored_data(pgp_in.buf)]
    /\ UNCHANGED pgp_in

\* one call of dc_pgp_pk_decrypt on the input chosen at the start
PkDecrypt ==
    /\ pgp_in.fn = "dc_pgp_pk_decrypt"
    /\ pgp_out.fn = "none"
    /\ pgp_out' = [fn |-> pgp_in.fn, r |-> dc_pgp_pk_decrypt(pgp_in.in)]
    /\ UNCHANGED pgp_in

(***************************************************************************)
(* dc_pgp_pk_encrypt in its two builds, and its output handed to           *)
(* dc_pgp_pk_decrypt.  A key is its id and what its bytes parse as; the    *)
(* engine behind the calls is an ideal OpenPGP engine: a message opens     *)
(* with the private key of any of its recipients, and a signature is       *)
(* valid when the signer's public key is in the validation keyring         *)
(***************************************************************************)
MaxKeyring == 2

PubKey(i) == [id |-> i, kind |-> "public"]
SecKey(i) == [id |-> i, kind |-> "private"]
JunkKey == [id |-> 0, kind |-> "junk"]
\* raw_private_key_for_signing == NULL
NoKey == [id |-> 0, kind |-> "none"]

\* dc_keyring_t with count >= 1
Keyrings(keys) == UNION { [1..n -> keys] : n \in 1..MaxKeyring }

\* rpgp_pkey_from_bytes / rpgp_skey_from_bytes on every key of the ring, no error raised
AllParse(ring, kind) == \A i \in 1..Len(ring) : ring[i].kind = kind

\* pgp_filter_keys_from_mem on every key of the ring: the keys of that kind it finds
FilterKeys(ring, kind) == { ring[i].id : i \in { j \in 1..Len(ring) : ring[j].kind = kind } }

\* the uppercase hex fingerprint of key i
Fingerprint(i) == IF i = 1 THEN "0A1B" ELSE "2C3D"

\* the caller's outputs before dc_pgp_pk_encrypt
EncryptStart == [success |-> FALSE, crashed |-> FALSE, ctext |-> [kind |-> "caller"]]

\* *ret_ctext = NULL; *ret_ctext_bytes = 0
EncryptCleared == [EncryptStart EXCEPT !.ctext = [kind |-> "NULL"]]

\* cleanup drops public_keys[i] for every i although the array came from malloc and
\* was not filled: the call returns 0 or the process ends
EncryptDropsUnset == {EncryptCleared, [EncryptCleared EXCEPT !.crashed = TRUE]}

\* the OpenPGP message made by the engine
EncryptedTo(in, ids, armored) ==
    [success |-> TRUE, crashed |-> FALSE,
     ctext |-> [kind |-> "message", plain |-> in.plain, to |-> ids,
                signer |-> in.signer.id, armored |-> armored]]

\* dc_pgp_pk_encrypt with DC_USE_RPGP
dc_pgp_pk_encrypt_rpgp(in) ==
    IF in.plain = "" \/ ~in.use_armor THEN {EncryptStart}
    ELSE IF in.signer # NoKey /\ in.signer.kind # "private" THEN EncryptDropsUnset
    ELSE IF ~AllParse(in.to, "public")
         THEN IF in.to[Len(in.to)].kind = "public" THEN EncryptDropsUnset
              ELSE IF AllParse(SubSeq(in.to, 1, Len(in.to) - 1), "public")
                   THEN {EncryptCleared} ELSE EncryptDropsUnset
    ELSE {EncryptedTo(in, FilterKeys(in.to, "public"), TRUE)}

\* dc_pgp_pk_encrypt without DC_USE_RPGP
dc_pgp_pk_encrypt_netpgp(in) ==
    IF in.plain = "" THEN {EncryptStart}
    ELSE IF FilterKeys(in.to, "public") = {} \/ FilterKeys(in.to, "private") # {}
         THEN {EncryptCleared}
    ELSE IF in.signer # NoKey /\ in.signer.kind # "private" THEN {EncryptCleared}
    ELSE {EncryptedTo(in, FilterKeys(in.to, "public"), in.use_armor)}

dc_pgp_pk_encrypt(in) ==
    IF in.rpgp THEN dc_pgp_pk_encrypt_rpgp(in) ELSE dc_pgp_pk_encrypt_netpgp(in)

\* what the engine makes of the arguments of dc_pgp_pk_decrypt when ctext is the
\* message c, opened with the keyring in.keys and validated against in.verify
DecryptArgs(c, in) ==
    [rpgp |-> in.rpgp, args_ok |-> TRUE, use_armor |-> in.use_armor,
     private_ok |-> IF in.rpgp THEN AllParse(in.keys, "private")
                    ELSE FilterKeys(in.keys, "private") # {},
     public_ok |-> AllParse(in.verify, "public"),
     decrypt_ok |-> /\ FilterKeys(in.keys, "private") \cap c.to # {}
                    /\ c.armored = in.use_armor,
     bytes_ok |-> TRUE, collector |-> TRUE,
     sigs |-> IF c.signer \in FilterKeys(in.verify, "public") THEN <<"good">> ELSE <<>>]

\* the plaintext bytes and the collector's keys after decrypting the message c
Decrypted(d, c) ==
    [success |-> d.success,
     plain |-> IF d.plain = "plaintext" THEN c.plain ELSE d.plain,
     fingerprints |-> { Fingerprint(c.signer) : i \in d.fingerprints }]

\* dc_pgp_pk_decrypt on the output e of dc_pgp_pk_encrypt
DecryptOutputOf(e, in) ==
    IF e.success THEN Decrypted(dc_pgp_pk_decrypt(DecryptArgs(e.ctext, in)), e.ctext)
    ELSE [success |-> FALSE, plain |-> "caller", fingerprints |-> {}]

\* the plaintexts, keys and keyrings of a call; the validation keyring <<>> is NULL
RoundTripInputs ==
    [ rpgp : BOOLEAN, use_armor : BOOLEAN, plain : {"", "hi"},
      to : Keyrings({PubKey(1), PubKey(2), JunkKey}),
      signer : {NoKey, SecKey(1), SecKey(2), JunkKey},
      keys : Keyrings({SecKey(1), SecKey(2), JunkKey}),
      verify : Keyrings({PubKey(1), PubKey(2), JunkKey}) \cup {<<>>} ]

\* dc_pgp_pk_encrypt on the input chosen at the start, then dc_pgp_pk_decrypt on its output
PkRoundTrip ==
    /\ pgp_in.fn = "round_trip"
    /\ pgp_out.fn = "none"
    /\ \E e \in dc_pgp_pk_encrypt(pgp_in.in) :
        pgp_out' = [fn |-> pgp_in.fn, r |-> [enc |-> e, dec |-> DecryptOutputOf(e, pgp_in.in)]]
    /\ UNCHANGED pgp_in

(***************************************************************************)
(* The key handles of the rPGP builds of dc_pgp_pk_encrypt and             *)
(* dc_pgp_pk_decrypt: what the slots of the malloc'ed arrays hold when      *)
(* cleanup is reached, and what cleanup hands to the drop functions         *)
(***************************************************************************)
\* the first key of the ring that does not load as kind, Len(ring) + 1 if all of them load
FirstFailing(ring, kind) ==
    IF AllParse(ring, kind) THEN Len(ring) + 1
    ELSE CHOOSE i \in 1..Len(ring) :
             /\ ring[i].kind # kind
             /\ \A j \in 1..(i - 1) : ring[j].kind = kind

\* the loading loops: slot i holds a handle when every key up to i has loaded, the slot of
\* the failing key holds the NULL the load returned, and the loop leaves at once, so that the
\* slots behind it are as malloc made them
LoadSlots(ring, kind) ==
    [i \in 1..Len(ring) |->
        IF i < FirstFailing(ring, kind) THEN "loaded"
        ELSE IF i = FirstFailing(ring, kind) THEN "NULL" ELSE "unset"]

\* an array from malloc that no loop has touched
UnsetSlots(n) == [i \in 1..n |-> "unset"]

\* cleanup: for (i = 0; i < len; i++) drop(array[i])
DropSlots(array, slots) ==
    [i \in 1..Len(slots) |-> [array |-> array, index |-> i, slot |-> slots[i]]]

\* dc_pgp_pk_encrypt with DC_USE_RPGP: the drops of cleanup, in order
EncryptDrops(in) ==
    IF ~in.args_ok \/ in.public = <<>> THEN <<>>
    ELSE IF in.signer # NoKey /\ in.signer.kind # "private"
    THEN DropSlots("public_keys", UnsetSlots(Len(in.public)))
    ELSE (IF in.signer # NoKey THEN DropSlots("private_key", <<"loaded">>) ELSE <<>>)
         \o DropSlots("public_keys", LoadSlots(in.public, "public"))

\* dc_pgp_pk_decrypt with DC_USE_RPGP: the drops of cleanup, in order
DecryptDrops(in) ==
    IF ~in.args_ok THEN <<>>
    ELSE DropSlots("private_keys", LoadSlots(in.secret, "private"))
         \o DropSlots("public_keys",
                      IF AllParse(in.secret, "private") THEN LoadSlots(in.public, "public")
                      ELSE UnsetSlots(Len(in.public)))

\* the arguments that decide about the handles; the public keyring <<>> is NULL (decrypt)
\* or has count 0 (encrypt)
HandleInputs ==
    [ fn : {"dc_pgp_pk_encrypt", "dc_pgp_pk_decrypt"}, args_ok : BOOLEAN,
      signer : {NoKey, SecKey(1), JunkKey},
      secret : Keyrings({SecKey(1), JunkKey}),
      public : Keyrings({PubKey(1), JunkKey}) \cup {<<>>} ]

\* one call of dc_pgp_pk_encrypt or dc_pgp_pk_decrypt, watched at the drop functions
PkCleanup ==
    /\ pgp_in.fn = "cleanup"
    /\ pgp_out.fn = "none"
    /\ pgp_out' = [fn |-> pgp_in.fn,
                   r |-> IF pgp_in.in.fn = "dc_pgp_pk_encrypt" THEN EncryptDrops(pgp_in.in)
                         ELSE DecryptDrops(pgp_in.in)]
    /\ UNCHANGED pgp_in

NoCall == [op |-> "none"]

Init ==
    /\ db \in {EmptyDb, UsedDb}
    /\ last_smeared = 0
    /\ calls = 0
    /\ last = NoCall
    /\ prev = NoCall
    /\ WakeStart
    /\ LockStart
    /\ PgpStart

(***************************************************************************)
(* Operations of the mailbox facade                                        *)
(***************************************************************************)
\* cb_receive_imf / mrmailbox_poke_eml_file: receive_imf on one message
ReceiveImf(m, place, fail) ==
    /\ calls < MaxCalls
    /\ \E r \in {receive_imf(db, last_smeared, m, place.folder, place.uid, place.seen, fail)} :
       /\ fail.at # 0 => r.outcome = "failed"
       /\ ~fail.chat_ok => r.chat_insert
       /\ db' = r.db
       /\ last_smeared' = r.ls
       /\ last' = [op |-> "receive_imf", m |-> m, place |-> place, fail |-> fail,
                   before |-> db, r |-> r]
    /\ prev' = last
    /\ calls' = calls + 1
    /\ UNCHANGED <<wakevars, lockvars, pgpvars>>

\* mrmailbox_set_config_int
SetConfigInt(key, value) ==
    /\ calls < MaxCalls
    /\ db' = [db EXCEPT !.config[key] = value]
    /\ last' = [op |-> "set_config_int", key |-> key, value |-> value, before |-> db,
                events |-> <<>>]
    /\ prev' = last
    /\ calls' = calls + 1
    /\ UNCHANGED <<last_smeared, wakevars, lockvars, pgpvars>>

\* mrmailbox_reset_tables
ResetTables(bits) ==
    /\ calls < MaxCalls
    /\ db' = IF (bits \div 8) % 2 = 1
             THEN [db EXCEPT !.contacts = <<>>, !.chats = <<>>, !.chats_contacts = {},
                             !.msgs = <<>>, !.leftgrps = {}, !.config.configured_addr = ""]
             ELSE db
    /\ last' = [op |-> "reset_tables", bits |-> bits, before |-> db,
                events |-> <<Cb(MR_EVENT_MSGS_CHANGED, 0, 0, FALSE, FALSE)>>]
    /\ prev' = last
    /\ calls' = calls + 1
    /\ UNCHANGED <<last_smeared, wakevars, lockvars, pgpvars>>

Next ==
    \/ \E m \in Messages, place \in Places, fail \in Faults : ReceiveImf(m, place, fail)
    \/ \E key \in {"show_deaddrop", "mdns_enabled"}, value \in {0, 1} : SetConfigInt(key, value)
    \/ \E bits \in {1, 8} : ResetTables(bits)

Spec == Init /\ [][Next]_vars

\* the wake lock on its own: the mailbox is left alone while the threads run
InitWake ==
    /\ db = EmptyDb
    /\ last_smeared = 0
    /\ calls = 0
    /\ last = NoCall
    /\ prev = NoCall
    /\ WakeStart
    /\ LockStart
    /\ PgpStart

NextWake ==
    \/ \E t \in WakeThreads, fn \in {"lock", "unlock"}, mailbox_null \in BOOLEAN :
           WakeCall(t, fn, mailbox_null) /\ UNCHANGED <<mailvars, lockvars, pgpvars>>
    \/ \E t \in WakeThreads : WakeMutexLock(t) /\ UNCHANGED <<mailvars, lockvars, pgpvars>>
    \/ \E t \in WakeThreads : WakeLockInc(t) /\ UNCHANGED <<mailvars, lockvars, pgpvars>>
    \/ \E t \in WakeThreads : WakeLockTest(t) /\ UNCHANGED <<mailvars, lockvars, pgpvars>>
    \/ \E t \in WakeThreads : WakeUnlockTest(t) /\ UNCHANGED <<mailvars, lockvars, pgpvars>>
    \/ \E t \in WakeThreads : WakeUnlockDec(t) /\ UNCHANGED <<mailvars, lockvars, pgpvars>>
    \/ \E t \in WakeThreads : WakeMutexUnlock(t) /\ UNCHANGED <<mailvars, lockvars, pgpvars>>

SpecWake == InitWake /\ [][NextWake]_vars

\* the wake lock called in any way whatsoever, unmatched unlocks included
NextWakeAny ==
    \/ NextWake
    \/ \E t \in WakeThreads : WakeCallUnmatched(t) /\ UNCHANGED <<mailvars, lockvars, pgpvars>>

SpecWakeAny == InitWake /\ [][NextWakeAny]_vars

\* the public routines, called one after the other in any order
InitLock == InitWake

NextLock ==
    \/ \E outcome \in {"noheader", "committed", "moved", "duplicate", "failed"} :
           LkReceiveImf(outcome) /\ UNCHANGED <<mailvars, wakevars, pgpvars>>
    \/ \E dbfile_null, open_ok \in BOOLEAN :
           LkOpen(dbfile_null, open_ok) /\ UNCHANGED <<mailvars, wakevars, pgpvars>>
    \/ LkClose /\ UNCHANGED <<mailvars, wakevars, pgpvars>>
    \/ \E fn \in {"set_config", "get_config", "set_config_int", "get_config_int"},
          key_null \in BOOLEAN, value \in {0, 1} :
           LkConfig(fn, key_null, value) /\ UNCHANGED <<mailvars, wakevars, pgpvars>>
    \/ LkGetInfo /\ UNCHANGED <<mailvars, wakevars, pgpvars>>
    \/ \E bits \in {0, 1, 2, 8, 9} : LkResetTables(bits) /\ UNCHANGED <<mailvars, wakevars, pgpvars>>
    \/ \E connect_ok \in BOOLEAN :
           LkConnectToImap(connect_ok) /\ UNCHANGED <<mailvars, wakevars, pgpvars>>
    \/ LkConnect /\ UNCHANGED <<mailvars, wakevars, pgpvars>>
    \/ LkDisconnect /\ UNCHANGED <<mailvars, wakevars, pgpvars>>

SpecLock == InitLock /\ [][NextLock]_vars

\* the caller thread and the job thread of a configured mailbox
InitThreads ==
    /\ db = EmptyDb
    /\ last_smeared = 0
    /\ calls = 0
    /\ last = NoCall
    /\ prev = NoCall
    /\ WakeStart
    /\ PgpStart
    /\ lk_open = TRUE
    /\ lk_imap = FALSE
    /\ lk_configured \in BOOLEAN
    /\ lk_job = FALSE
    /\ lk_last = [routine |-> "none", trace |-> <<>>]
    /\ lk_pc = ThreadsIdle

NextThreads ==
    \/ ThConnect /\ UNCHANGED <<mailvars, wakevars, pgpvars>>
    \/ ThDisconnectKill /\ UNCHANGED <<mailvars, wakevars, pgpvars>>
    \/ ThDisconnectImap /\ UNCHANGED <<mailvars, wakevars, pgpvars>>
    \/ ThJobStart /\ UNCHANGED <<mailvars, wakevars, pgpvars>>
    \/ ThIsConnected /\ UNCHANGED <<mailvars, wakevars, pgpvars>>
    \/ ThConfigured /\ UNCHANGED <<mailvars, wakevars, pgpvars>>
    \/ \E connect_ok \in BOOLEAN : ThImapConnect(connect_ok) /\ UNCHANGED <<mailvars, wakevars, pgpvars>>
    \/ ThJobReturn /\ UNCHANGED <<mailvars, wakevars, pgpvars>>

SpecThreads == InitThreads /\ [][NextThreads]_vars

\* the dc_pgp functions, each applied once to an input chosen at the start
InitPgp ==
    /\ db = EmptyDb
    /\ last_smeared = 0
    /\ calls = 0
    /\ last = NoCall
    /\ prev = NoCall
    /\ WakeStart
    /\ LockStart
    /\ pgp_in \in { [fn |-> "dc_split_armored_data", buf |-> b] : b \in ArmorInputs }
                 \cup { [fn |-> "dc_pgp_pk_decrypt", in |-> i] : i \in DecryptInputs }
                 \cup { [fn |-> "round_trip", in |-> i] : i \in RoundTripInputs }
                 \cup { [fn |-> "cleanup", in |-> i] : i \in HandleInputs }
    /\ pgp_out = [fn |-> "none"]

NextPgp ==
    \/ SplitArmoredData /\ UNCHANGED <<mailvars, wakevars, lockvars>>
    \/ PkDecrypt /\ UNCHANGED <<mailvars, wakevars, lockvars>>
    \/ PkRoundTrip /\ UNCHANGED <<mailvars, wakevars, lockvars>>
    \/ PkCleanup /\ UNCHANGED <<mailvars, wakevars, lockvars>>

SpecPgp == InitPgp /\ [][NextPgp]_vars

\* the resolver on its own: one message is received by the mailbox with groups, which
\* earlier calls have made
InitGroup ==
    /\ db = GroupDb
    /\ last_smeared = 0
    /\ calls = MaxCalls - 1
    /\ last = NoCall
    /\ prev = NoCall
    /\ WakeStart
    /\ LockStart
    /\ PgpStart

NextGroup ==
    /\ calls < MaxCalls
    /\ \E m \in GroupMessages, place \in Places, fail \in {NoFault, [chat_ok |-> FALSE, at |-> 0]} :
           ReceiveImf(m, place, fail)

SpecGroup == InitGroup /\ [][NextGroup]_vars

(***************************************************************************)
(* Properties.  last is the latest call of the facade and prev the one     *)
(* before it; for a receive_imf call, before is the database it started on *)
(* and r what it left behind.                                              *)
(***************************************************************************)
IsReceive(call) == call.op = "receive_imf"

\* the events a call emitted, in order
EventsOf(call) == IF IsReceive(call) THEN call.r.events ELSE IF call.op = "none" THEN <<>> ELSE call.events

\* the rows of msgs a receive_imf call added
NewRows(call) == SubSeq(call.r.db.msgs, Len(call.before.msgs) + 1, Len(call.r.db.msgs))

\* the same blob was handed over twice in a row, from the same place, without i/o errors
TwiceInARow ==
    /\ IsReceive(prev) /\ IsReceive(last)
    /\ prev.m = last.m /\ prev.place = last.place
    /\ prev.fail = NoFault /\ last.fail = NoFault

\* C1: receiving the same blob twice in a row leaves the msgs rows of the first call
\* unchanged after the second call, and the second call emits no event at all.
C1_Idempotent ==
    TwiceInARow => /\ last.r.db.msgs = prev.r.db.msgs
                   /\ last.r.events = <<>>

\* the rows a message is split into: its parts and, for an outgoing non-group message with
\* several recipients, one ghost per additional recipient
ExpectedRows(call) ==
    Len(call.m.parts)
    + (IF ~call.r.incoming /\ ~call.r.is_group /\ Len(call.r.to_list) > 1
       THEN Len(call.r.to_list) - 1 ELSE 0)

\* C2: a receive_imf call is all-or-nothing: when an INSERT INTO msgs fails the database
\* (contacts, chats, chats_contacts, msgs) is exactly as before the call, and a call that
\* commits has stored every part and every ghost row together with what resolving did.
C2_AllOrNothing ==
    IsReceive(last) =>
        /\ last.r.outcome = "failed" => last.r.db = last.before
        /\ last.r.outcome = "committed" =>
               /\ last.r.db = last.r.work
               /\ Len(NewRows(last)) = ExpectedRows(last)

\* C2 witness: the second INSERT INTO msgs or a later one failed after the transaction had
\* already added contacts and a row, and nothing of it is left
C2_Witness ==
    /\ IsReceive(last) /\ last.r.outcome = "failed" /\ last.fail.at >= 2
    /\ Len(last.r.work.msgs) > Len(last.before.msgs)
    /\ Len(last.r.work.contacts) > Len(last.before.contacts)
    /\ last.r.db = last.before

\* C3: every event of a receive_imf call is emitted after the transaction of the call
\* has ended; none is delivered while its change is uncommitted.
C3_EventsAfterCommit ==
    IsReceive(last) => \A i \in 1..Len(last.r.events) : ~last.r.events[i].pending

\* C4: the callback is never invoked while the calling thread holds the database lock,
\* in receive_imf (group resolver included) and in mrmailbox_reset_tables.
C4_NoCallbackUnderLock ==
    \A i \in 1..Len(EventsOf(last)) : ~EventsOf(last)[i].locked

\* C5: no two rows of msgs carry the same rfc724_mid.
C5_UniqueMid ==
    \A i, j \in 1..Len(db.msgs) : i # j => db.msgs[i].rfc724_mid # db.msgs[j].rfc724_mid

\* C6 as stated: every row of chats_contacts has contact_id > LAST_SPECIAL.
C6_NoSpecialMember ==
    \A p \in db.chats_contacts : p[2] > MR_CONTACT_ID_LAST_SPECIAL

\* C6 amended: every row of chats_contacts names SELF or a contact id > LAST_SPECIAL,
\* and it names a real chat.
C6_MembersSelfOrReal ==
    \A p \in db.chats_contacts :
        /\ p[2] = MR_CONTACT_ID_SELF \/ p[2] \in ContactIds(db)
        /\ p[1] \in ChatIds(db)

\* C6 witness: a group chat whose stored members are SELF and another contact
C6_Witness ==
    \E id \in ChatIds(db) :
        /\ ChatRow(db, id).type = MR_CHAT_GROUP
        /\ <<id, MR_CONTACT_ID_SELF>> \in db.chats_contacts
        /\ \E p \in db.chats_contacts : p[1] = id /\ p[2] > MR_CONTACT_ID_LAST_SPECIAL

\* an incoming message for a group the user left, which has no chat, without re-adding SELF
LeftGroupCase(call) ==
    /\ IsReceive(call) /\ call.r.incoming /\ call.m.parts # <<>>
    /\ call.r.outcome = "committed"
    /\ GrpidOf(call.m) # NULL
    /\ GrpidOf(call.m) \in call.before.leftgrps
    /\ LookupChatByGrpid(call.before, GrpidOf(call.m)) = 0
    /\ ~(call.m.add # NullAddr /\ StrCaseEq(SelfAddrOf(call.before), call.m.add))

\* C7: an incoming message for a left group without a chat and without an Added header
\* naming SELF creates no chat and its rows are stored with chat_id = TRASH.
C7_LeftGroupToTrash ==
    LeftGroupCase(last) =>
        /\ last.r.db.chats = last.before.chats
        /\ NewRows(last) # <<>>
        /\ \A i \in 1..Len(NewRows(last)) : NewRows(last)[i].chat_id = MR_CHAT_ID_TRASH

C7_Witness ==
    /\ LeftGroupCase(last)
    /\ last.r.known /\ last.m.msgr
    /\ Len(NewRows(last)) = 1
    /\ NewRows(last)[1].chat_id = MR_CHAT_ID_TRASH

\* C8: no INCOMING_MSG event is emitted for a row whose chat_id is TRASH.
C8_TrashSuppressed ==
    IsReceive(last) =>
        \A i \in 1..Len(last.r.events) :
            last.r.events[i].ev = MR_EVENT_INCOMING_MSG
                => last.r.events[i].data1 # MR_CHAT_ID_TRASH

\* a committed call that created a group chat from a message without Added/Removed header
CreatedGroupCase(call) ==
    /\ IsReceive(call) /\ call.r.outcome = "committed"
    /\ call.r.grp_created # 0
    /\ call.m.add = NullAddr /\ call.m.remove = NullAddr

\* C9: a newly created group chat has the message's group id and decoded name and exactly
\* the members SELF, the sender if it is a real contact other than the user, and every
\* contact of to_list; an incoming message addressed only to the user gives {SELF, sender}.
C9_NewGroup ==
    CreatedGroupCase(last) =>
        /\ ChatRow(last.r.db, last.r.grp_created).type = MR_CHAT_GROUP
        /\ ChatRow(last.r.db, last.r.grp_created).grpid = GrpidOf(last.m)
        /\ ChatRow(last.r.db, last.r.grp_created).name = mr_decode_header_string(last.m.grpname)
        /\ ChatMembers(last.r.db, last.r.grp_created) =
               {MR_CONTACT_ID_SELF}
               \cup (IF /\ last.r.from_id > MR_CONTACT_ID_LAST_SPECIAL
                        /\ ~contact_addr_equals(last.r.db, last.r.from_id, SelfAddrOf(last.r.db))
                     THEN {last.r.from_id} ELSE {})
               \cup SeqToSet(last.r.to_list)
        /\ (last.r.incoming /\ last.r.to_list = <<>>)
               => ChatMembers(last.r.db, last.r.grp_created) = {MR_CONTACT_ID_SELF, last.r.from_id}

\* C9 witness: the message of a known sender to the user alone made the chat "Team" of
\* group abcdefghij1 with the members SELF and the sender
C9_Witness ==
    /\ CreatedGroupCase(last) /\ last.r.incoming /\ last.r.to_list = <<>>
    /\ ChatRow(last.r.db, last.r.grp_created).name = <<"T", "e", "a", "m">>
    /\ ChatRow(last.r.db, last.r.grp_created).grpid = G1
    /\ ChatMembers(last.r.db, last.r.grp_created) = {MR_CONTACT_ID_SELF, last.r.from_id}
    /\ last.r.from_id > MR_CONTACT_ID_LAST_SPECIAL

\* a fresh incoming message of a sender who is not blocked, assigned to the deaddrop
DeaddropCase(call) ==
    /\ IsReceive(call) /\ call.r.outcome = "committed" /\ call.m.parts # <<>>
    /\ call.r.incoming /\ ~call.place.seen /\ ~call.r.blocked
    /\ call.r.chat_id = MR_CHAT_ID_DEADDROP

HasIncomingMsgEvent(call) ==
    \E i \in 1..Len(call.r.events) : call.r.events[i].ev = MR_EVENT_INCOMING_MSG

\* C10: a fresh incoming message of a non-blocked sender assigned to the deaddrop is stored
\* in the deaddrop, and INCOMING_MSG is emitted for it iff show_deaddrop is non-zero.
C10_Deaddrop ==
    DeaddropCase(last) =>
        /\ NewRows(last) # <<>>
        /\ \A i \in 1..Len(NewRows(last)) : NewRows(last)[i].chat_id = MR_CHAT_ID_DEADDROP
        /\ HasIncomingMsgEvent(last) <=> (last.before.config.show_deaddrop # 0)

\* C10 witness: with show_deaddrop switched on the event fires
C10_Witness ==
    /\ DeaddropCase(last)
    /\ last.before.config.show_deaddrop = 1
    /\ HasIncomingMsgEvent(last)

\* C10, the other side: with show_deaddrop off the row is stored silently
C10_WitnessOff ==
    /\ DeaddropCase(last)
    /\ last.before.config.show_deaddrop = 0
    /\ ~HasIncomingMsgEvent(last)
    /\ NewRows(last) # <<>>

\* a committed receive_imf call on a message with parts
Stored(call) == IsReceive(call) /\ call.r.outcome = "committed" /\ call.m.parts # <<>>

\* the call was for an outgoing non-group message with at least two recipients
GhostCase(call) ==
    Stored(call) /\ ~call.r.incoming /\ ~call.r.is_group /\ Len(call.r.to_list) >= 2

\* the chat a ghost row for contact to_id belongs to
GhostChatOf(d, to_id) ==
    IF lookup_real_nchat_by_contact_id(d, to_id) # 0
    THEN lookup_real_nchat_by_contact_id(d, to_id)
    ELSE MR_CHAT_ID_TO_DEADDROP

\* row k of the ghost rows of a call, which follow the rows of the parts
GhostRow(call, k) == NewRows(call)[Len(call.m.parts) + k]

\* C11: an outgoing non-group message with n >= 2 recipients gets exactly n-1 ghost rows,
\* one per recipient after the first, each of type text with param G=<id of the primary
\* row> and in that recipient's 1:1 chat or else TO_DEADDROP; incoming and group messages
\* get no ghost row.
C11_Ghosts ==
    Stored(last) =>
        IF GhostCase(last)
        THEN /\ Len(NewRows(last)) = Len(last.m.parts) + Len(last.r.to_list) - 1
             /\ \A k \in 1..Len(last.m.parts) : NewRows(last)[k].param = <<>>
             /\ \A k \in 1..(Len(last.r.to_list) - 1) :
                    /\ GhostRow(last, k).type = MR_MSG_TEXT
                    /\ GhostRow(last, k).param =
                           <<"G", "=">> \o NumStr(MsgIdOf(Len(last.before.msgs) + 1))
                    /\ GhostRow(last, k).to_id = last.r.to_list[k + 1]
                    /\ GhostRow(last, k).chat_id = GhostChatOf(last.r.db, last.r.to_list[k + 1])
        ELSE /\ Len(NewRows(last)) = Len(last.m.parts)
             /\ \A k \in 1..Len(NewRows(last)) : NewRows(last)[k].param = <<>>

\* C11 witness: three recipients, two ghost rows G=10, one in the recipient's chat and one
\* in the to-deaddrop
C11_Witness ==
    /\ GhostCase(last) /\ Len(last.r.to_list) = 3 /\ Len(NewRows(last)) = 3
    /\ GhostRow(last, 1).param = <<"G", "=", "1", "1">>
    /\ GhostRow(last, 1).chat_id > MR_CHAT_ID_LAST_SPECIAL
    /\ GhostRow(last, 2).chat_id = MR_CHAT_ID_TO_DEADDROP

\* a receive_imf call that reached the commit
Committed(call) == IsReceive(call) /\ call.r.outcome = "committed"

\* the sent message that report k of the call's message refers to, 0 if none
ReportHit(call, k) == mdn_from_ext_hit(call.before, call.r.from_id, call.m.reports[k].orig)

\* how often the call emitted MSG_READ(chat_id, msg_id), after commit and outside the lock
CountMsgRead(call, chat_id, msg_id) ==
    Cardinality({ i \in 1..Len(call.r.events) :
                     call.r.events[i] = Cb(MR_EVENT_MSG_READ, chat_id, msg_id, FALSE, FALSE) })

HasMsgRead(call) == \E i \in 1..Len(call.r.events) : call.r.events[i].ev = MR_EVENT_MSG_READ

\* C12: with mdns_enabled non-zero every disposition notification that hits a sent
\* message (c, i) gives exactly one MSG_READ(c, i), emitted after the commit and after the
\* create events of the call, and the sent message becomes OUT_READ; with mdns_enabled 0
\* nothing is looked up and no MSG_READ is emitted.
C12_MsgRead ==
    Committed(last) =>
        /\ \A k \in 1..Len(last.m.reports) :
               ( /\ last.before.config.mdns_enabled # 0
                 /\ last.m.reports[k].wellformed
                 /\ ReportHit(last, k) # 0 )
               => /\ CountMsgRead(last, MsgRow(last.before, ReportHit(last, k)).chat_id,
                                  ReportHit(last, k)) = 1
                  /\ MsgRow(last.r.db, ReportHit(last, k)).state = MR_OUT_READ
        /\ last.before.config.mdns_enabled = 0
               => /\ ~HasMsgRead(last)
                  /\ \A i \in 1..Len(last.before.msgs) :
                         last.r.db.msgs[i].state = last.before.msgs[i].state
        /\ \A i, j \in 1..Len(last.r.events) :
               (last.r.events[i].ev = MR_EVENT_MSG_READ /\ last.r.events[j].ev # MR_EVENT_MSG_READ)
               => j < i

\* C12 witness: the receipt for sent message 10 of chat 10 arrives in a message that also
\* has a part: first the create event, then MSG_READ(10, 10)
C12_Witness ==
    /\ Committed(last) /\ last.m.parts # <<>> /\ Len(last.m.reports) = 1
    /\ Len(last.r.events) = 2
    /\ last.r.events[1].ev = MR_EVENT_INCOMING_MSG
    /\ last.r.events[2] = Cb(MR_EVENT_MSG_READ, 10, 10, FALSE, FALSE)
    /\ MsgRow(last.r.db, 10).state = MR_OUT_READ

\* C12, the other side: the receipt would hit but mdns_enabled is 0
C12_WitnessOff ==
    /\ Committed(last) /\ Len(last.m.reports) = 1
    /\ last.before.config.mdns_enabled = 0
    /\ ReportHit(last, 1) # 0
    /\ ~HasMsgRead(last)


\* a receive_imf call that found its Message-ID stored under another folder or uid
MovedCase(call) == IsReceive(call) /\ call.r.outcome = "moved"

\* C13: a message whose Message-ID is already stored under another (server_folder,
\* server_uid) only moves the stored rows to the new folder and uid: the transaction is
\* rolled back, no row is inserted, and no contact, chat, membership, text, timestamp or
\* chat_id changes.
C13_Moved ==
    MovedCase(last) =>
        /\ last.r.db.contacts = last.before.contacts
        /\ last.r.db.chats = last.before.chats
        /\ last.r.db.chats_contacts = last.before.chats_contacts
        /\ last.r.db.leftgrps = last.before.leftgrps
        /\ last.r.db.config = last.before.config
        /\ Len(last.r.db.msgs) = Len(last.before.msgs)
        /\ \A i \in 1..Len(last.before.msgs) :
               IF last.before.msgs[i].rfc724_mid = last.r.rfc724_mid
               THEN last.r.db.msgs[i] = [ last.before.msgs[i] EXCEPT
                                            !.server_folder = last.place.folder,
                                            !.server_uid = last.place.uid ]
               ELSE last.r.db.msgs[i] = last.before.msgs[i]

\* C13 witness: the moved message had already added a contact inside the transaction,
\* which the rollback takes back, and the stored row now carries the new folder and uid
C13_Witness ==
    /\ MovedCase(last)
    /\ Len(last.r.work.contacts) > Len(last.before.contacts)
    /\ \E i \in 1..Len(last.before.msgs) :
           /\ last.before.msgs[i].rfc724_mid = last.r.rfc724_mid
           /\ last.before.msgs[i].server_uid # last.place.uid
           /\ last.r.db.msgs[i].server_uid = last.place.uid
           /\ last.r.db.msgs[i].server_folder = last.place.folder


\* the timestamps of the messages other senders have in the chat the call chose
OtherTimestamps(call) ==
    { call.before.msgs[i].timestamp : i \in { j \in 1..Len(call.before.msgs) :
          /\ call.before.msgs[j].chat_id = call.r.chat_id
          /\ call.before.msgs[j].from_id # call.r.from_id } }

LatestOther(call) == CHOOSE t \in OtherTimestamps(call) : \A o \in OtherTimestamps(call) : o <= t

\* the timestamp before the cap, when "fresh" means incoming and not IMAP_SEEN
DesiredTimestamp(call) ==
    IF call.r.incoming /\ ~call.place.seen /\ OtherTimestamps(call) # {}
    THEN Max(call.m.date, 1 + LatestOther(call))
    ELSE call.m.date

\* C14: the stored timestamp is the Date, raised above the latest message of another
\* sender in the chat only for fresh messages (incoming and not IMAP_SEEN), and replaced
\* by a smeared current time when it is not in the past; so an outgoing or already seen
\* message with a Date in the past is stored with exactly its Date.
C14_Timestamp ==
    Stored(last) =>
        \A i \in 1..Len(NewRows(last)) :
            IF DesiredTimestamp(last) < Now
            THEN NewRows(last)[i].timestamp = DesiredTimestamp(last)
            ELSE NewRows(last)[i].timestamp >= Now


\* no thread is between pthread_mutex_lock and pthread_mutex_unlock of the wake lock
WakeQuiet == \A t \in WakeThreads : wake_pc[t] \in {"idle", "lock", "unlock"}

WakeOn == { i \in 1..Len(wake_events) : wake_events[i] = 1 }
WakeOff == { i \in 1..Len(wake_events) : wake_events[i] = 0 }

\* C15: under any interleaving of wake_lock and wake_unlock calls in which every unlock has
\* a matching earlier lock, WAKE_LOCK(1,0) is emitted exactly for the steps of the counter
\* from 0 to 1 and WAKE_LOCK(0,0) exactly for its steps from 1 to 0; the events alternate
\* on, off, on, ... and the last event is 'on' iff the counter is above 0.
C15_WakeLock ==
    /\ \A i \in 1..Len(wake_events) : wake_events[i] = i % 2
    /\ m_wake_lock >= 0
    /\ WakeQuiet =>
          /\ Cardinality(WakeOn) = wake_hist.up
          /\ Cardinality(WakeOff) = wake_hist.down
          /\ (m_wake_lock > 0) <=> (wake_events # <<>> /\ wake_events[Len(wake_events)] = 1)

\* C15 witness: the counter went 0, 1, 0, 1 and the events were on, off, on; the thread
\* that emitted the last one is still inside while another waits for the mutex
C15_Witness ==
    /\ wake_events = <<1, 0, 1>>
    /\ m_wake_lock = 1
    /\ wake_hist.up = 2 /\ wake_hist.down = 1
    /\ \E t, u \in WakeThreads : wake_pc[t] = "lock" /\ wake_pc[u] = "lock_leave" /\ wake_mutex = u

\* C15, two holders at once: the counter is 2 after a single 'on', nobody inside
C15_WitnessTwo ==
    /\ WakeQuiet
    /\ m_wake_lock = 2
    /\ wake_events = <<1>>


\* the lock discipline over the operations of one routine, from position i on, with the
\* lock held or not and a transaction open or not: database calls, begin, commit and
\* rollback only under the lock, one commit or rollback for each begin and before the
\* unlock, no second lock, no unlock without lock, and the lock is free at the end
RECURSIVE Disciplined(_, _, _, _)
Disciplined(trace, i, held, txn) ==
    IF i > Len(trace) THEN ~held /\ ~txn
    ELSE IF trace[i] = "lock" THEN ~held /\ Disciplined(trace, i + 1, TRUE, txn)
    ELSE IF trace[i] = "unlock" THEN held /\ ~txn /\ Disciplined(trace, i + 1, FALSE, txn)
    ELSE IF trace[i] = "begin" THEN held /\ ~txn /\ Disciplined(trace, i + 1, held, TRUE)
    ELSE IF trace[i] \in {"commit", "rollback"} THEN held /\ txn /\ Disciplined(trace, i + 1, held, FALSE)
    ELSE held /\ Disciplined(trace, i + 1, held, txn)

\* C16: every public routine touches the database and begins, commits or rolls back only
\* while it holds the database lock, ends each transaction exactly once before it unlocks,
\* and on every path releases the lock exactly once if it took it and never takes it twice.
C16_LockDiscipline == Disciplined(lk_last.trace, 1, FALSE, FALSE)


\* dc_split_armored_data was called on a buffer
SplitCalled == pgp_out.fn = "dc_split_armored_data" /\ pgp_in.buf # NULL

\* the buffer as the function reads it: without carriage returns
SplitBuf == dc_remove_cr_chars(pgp_in.buf)

\* the indices of the line ends of the buffer
LineEnds == { i \in 1..Len(SplitBuf) : SplitBuf[i] = LF }

\* the line that ends at the line end e
LineBefore(e) ==
    SubSeq(SplitBuf,
           1 + (IF \E o \in LineEnds : o < e
                THEN CHOOSE o \in LineEnds : o < e /\ \A x \in LineEnds : x < e => x <= o
                ELSE 0),
           e - 1)

\* the line ends of the lines of the form -----BEGIN X-----
BeginEnds == { e \in LineEnds : IsHeaderline(dc_trim(LineBefore(e))) }

\* the places where "-----END " stands in the buffer
EndMarks == { i \in 1..Len(SplitBuf) : StartsWith(SplitBuf, i, ArmorEndMark) }

\* the tag X----- of a line -----BEGIN X-----
TagOf(headerline) == SubSeq(headerline, 12, Len(headerline))

\* C17: dc_split_armored_data returns false when the buffer has no -----BEGIN X----- line,
\* no "-----END " after the BEGIN line, or when the first "-----END " of the body carries
\* another tag than X; when it returns true, the first BEGIN line and an "-----END X-----"
\* after it enclose the body.
C17_BeginEnd ==
    SplitCalled =>
        /\ BeginEnds = {} => ~pgp_out.r.success
        /\ (\A b \in BeginEnds : \A e \in EndMarks : e < b) => ~pgp_out.r.success
        /\ (\A b \in BeginEnds : \A e \in EndMarks :
               e > b => ~StartsWith(SplitBuf, e + 9, TagOf(dc_trim(LineBefore(b)))))
           => ~pgp_out.r.success
        /\ pgp_out.r.success =>
              \E b \in BeginEnds : \E e \in EndMarks :
                  /\ \A o \in BeginEnds : b <= o
                  /\ pgp_out.r.headerline = dc_trim(LineBefore(b))
                  /\ e > b
                  /\ StartsWith(SplitBuf, e + 9, TagOf(pgp_out.r.headerline))

\* C17 witness: a BEGIN X line, a body and an END X line: true
C17_Witness ==
    /\ SplitCalled
    /\ pgp_out.r.success
    /\ pgp_out.r.base64 = <<"A", "A">>
    /\ Cardinality(BeginEnds) = 1 /\ Cardinality(EndMarks) = 1

\* C17, the other side: a BEGIN X line, a body and an END Y line: false
C17_WitnessTag ==
    /\ SplitCalled
    /\ ~pgp_out.r.success
    /\ BeginEnds # {} /\ EndMarks # {}
    /\ \A b \in BeginEnds : \A e \in EndMarks :
           e > b /\ ~StartsWith(SplitBuf, e + 9, TagOf(dc_trim(LineBefore(b))))
    /\ pgp_out.r.headerline # NULL
    /\ \E i \in LineEnds : LineBefore(i) = <<"A", "A">>


\* C18: dc_split_armored_data returns false when nothing but white space stands between
\* the end of the headers and the END line; whenever it returns true, the base64 text it
\* returns is not empty.
C18_Base64NotEmpty ==
    (SplitCalled /\ pgp_out.r.success) => pgp_out.r.base64 # <<>>


\* the lines of a buffer that end with a line end, from the start of a line on
RECURSIVE SplitLines(_, _)
SplitLines(buf, line) ==
    IF NextLineEnd(buf, line) = 0 THEN <<>>
    ELSE <<SubSeq(buf, line, NextLineEnd(buf, line) - 1)>>
         \o SplitLines(buf, NextLineEnd(buf, line) + 1)

RECURSIVE JoinLines(_)
JoinLines(ls) == IF ls = <<>> THEN <<>> ELSE Head(ls) \o <<LF>> \o JoinLines(Tail(ls))

\* the first BEGIN line among the lines, 0 if there is none
BeginAt(ls) ==
    IF \E i \in 1..Len(ls) : IsHeaderline(dc_trim(ls[i]))
    THEN CHOOSE i \in 1..Len(ls) :
             /\ IsHeaderline(dc_trim(ls[i]))
             /\ \A o \in 1..(i - 1) : ~IsHeaderline(dc_trim(ls[o]))
    ELSE 0

IsBlank(l) == \A i \in 1..Len(l) : l[i] \in PGP_WS

\* the line closes the header section: it is blank or has no ':'
ClosesHeaders(l) == IsBlank(l) \/ StrChr(l, ":", 1) = 0

\* the first line after the BEGIN line b that closes the header section, 0 if none does
CloseAt(ls, b) ==
    IF b # 0 /\ \E i \in (b + 1)..Len(ls) : ClosesHeaders(ls[i])
    THEN CHOOSE i \in (b + 1)..Len(ls) :
             ClosesHeaders(ls[i]) /\ \A o \in (b + 1)..(i - 1) : ~ClosesHeaders(ls[o])
    ELSE 0

\* the header lines: after the BEGIN line b, before the closing line k
HeaderLines(ls, b, k) ==
    IF b = 0 THEN {} ELSE (b + 1)..(IF k = 0 THEN Len(ls) ELSE k - 1)

\* the trimmed name and value of a header line
HeaderName(l) == dc_trim(SubSeq(l, 1, StrChr(l, ":", 1) - 1))
HeaderValue(l) == dc_trim(SubSeq(l, StrChr(l, ":", 1) + 1, Len(l)))

\* the value of the last header line of that name, NULL if there is none
Surfaced(ls, hs, name) ==
    IF \E i \in hs : strcasecmp0(HeaderName(ls[i]), name)
    THEN HeaderValue(ls[CHOOSE i \in hs :
             /\ strcasecmp0(HeaderName(ls[i]), name)
             /\ \A o \in hs : strcasecmp0(HeaderName(ls[o]), name) => o <= i])
    ELSE NULL

\* the body: what follows the blank line k, or what starts with the line k without ':'
BodyOf(buf, ls, k) ==
    SubSeq(buf, 1 + Len(JoinLines(SubSeq(ls, 1, IF IsBlank(ls[k]) THEN k ELSE k - 1))), Len(buf))

\* the header lines that are neither Passphrase-Begin nor Autocrypt-Prefer-Encrypt
OtherHeaders(ls, hs) ==
    { i \in hs : /\ ~strcasecmp0(HeaderName(ls[i]), PassphraseBegin)
                 /\ ~strcasecmp0(HeaderName(ls[i]), AutocryptPreferEncrypt) }

RECURSIVE DropLines(_, _, _)
DropLines(ls, i, drop) ==
    IF i > Len(ls) THEN <<>>
    ELSE (IF i \in drop THEN <<>> ELSE ls[i] \o <<LF>>) \o DropLines(ls, i + 1, drop)

\* the buffer without the lines drop
WithoutLines(buf, ls, drop) ==
    DropLines(ls, 1, drop) \o SubSeq(buf, 1 + Len(JoinLines(ls)), Len(buf))

\* what C19 says of the result r for the buffer with lines ls, BEGIN line b, closing line k
HeadersRead(r, buf, ls, b, k) ==
    /\ r.setupcodebegin = Surfaced(ls, HeaderLines(ls, b, k), PassphraseBegin)
    /\ r.preferencrypt = Surfaced(ls, HeaderLines(ls, b, k), AutocryptPreferEncrypt)
    /\ r.success =>
          /\ k # 0
          /\ StrStr(BodyOf(buf, ls, k), 1, ArmorEndMark) # 0
          /\ r.base64 = dc_trim(SubSeq(BodyOf(buf, ls, k), 1,
                                       StrStr(BodyOf(buf, ls, k), 1, ArmorEndMark) - 1))
    /\ r = dc_split_armored_data(WithoutLines(buf, ls, OtherHeaders(ls, HeaderLines(ls, b, k))))

HeadersReadFrom(r, buf, ls, b) == HeadersRead(r, buf, ls, b, CloseAt(ls, b))

\* C19: the header section ends at the first blank line, the body starting on the next
\* line, or at the first line without ':', which is the first line of the body; of the
\* header lines only Passphrase-Begin and Autocrypt-Prefer-Encrypt are returned, the names
\* compared without case and the values trimmed; any other header line is ignored and
\* changes nothing of the result; the example gives the header line
\* -----BEGIN PGP MESSAGE-----, prefer-encrypt mutual, base64 AAAA and no setup code.
C19_Headers ==
    SplitCalled =>
        /\ HeadersReadFrom(pgp_out.r, SplitBuf, SplitLines(SplitBuf, 1),
                           BeginAt(SplitLines(SplitBuf, 1)))
        /\ pgp_in.buf = ArmorExample =>
              pgp_out.r = [ success |-> TRUE,
                            headerline |-> SubSeq(ArmorExample, 1, 27),
                            setupcodebegin |-> NULL,
                            preferencrypt |-> <<"m", "u", "t", "u", "a", "l">>,
                            base64 |-> <<"A", "A", "A", "A">> ]

\* C19 witness: the example was split
C19_Witness ==
    /\ SplitCalled
    /\ pgp_in.buf = ArmorExample
    /\ pgp_out.r.success
    /\ pgp_out.r.preferencrypt = <<"m", "u", "t", "u", "a", "l">>

\* C19, a header section closed by a line without ':': lower-case autocrypt-prefer-encrypt
\* with blanks around name and value, then the body at once
C19_WitnessNoBlank ==
    /\ SplitCalled
    /\ pgp_out.r.success
    /\ pgp_out.r.preferencrypt = <<"m">>
    /\ pgp_out.r.base64 = <<"A", "A">>
    /\ \A i \in 1..Len(SplitLines(SplitBuf, 1)) : ~IsBlank(SplitLines(SplitBuf, 1)[i])

\* C19, a header that is ignored: V: 1 before the body
C19_WitnessOther ==
    /\ SplitCalled
    /\ pgp_out.r.success
    /\ pgp_out.r.base64 = <<"A", "A">>
    /\ \E i \in 1..Len(SplitLines(SplitBuf, 1)) : SplitLines(SplitBuf, 1)[i] = <<"V", ":", " ", "1">>
    /\ pgp_out.r.preferencrypt = NULL /\ pgp_out.r.setupcodebegin = NULL


\* dc_pgp_pk_decrypt was called
DecryptCalled == pgp_out.fn = "dc_pgp_pk_decrypt"

\* C20: when dc_pgp_pk_decrypt returns 0 it has written nothing to the caller: the
\* plaintext pointer and length carry no decrypted data and no fingerprint was added to
\* the collector of signature fingerprints.
C20_NothingOnFailure ==
    (DecryptCalled /\ ~pgp_out.r.success) =>
        /\ pgp_out.r.plain \in {"caller", "NULL"}
        /\ pgp_out.r.plain_bytes \in {-1, 0}
        /\ pgp_out.r.fingerprints = {}


\* dc_pgp_pk_encrypt was called and its output given to dc_pgp_pk_decrypt
RoundTripCalled == pgp_out.fn = "round_trip"

\* the call the round trip is stated for: a plaintext that is not empty, a valid public
\* key among the recipients, no signer or a signing key, the private key of a valid
\* recipient in the decryption keyring and the signer's public key in the validation
\* keyring; armored, the one form both builds take
RoundTripCase(in) ==
    /\ in.plain # ""
    /\ in.use_armor
    /\ FilterKeys(in.to, "public") # {}
    /\ in.signer.kind \in {"none", "private"}
    /\ FilterKeys(in.keys, "private") \cap FilterKeys(in.to, "public") # {}
    /\ in.signer # NoKey => in.signer.id \in FilterKeys(in.verify, "public")

\* C21: dc_pgp_pk_decrypt on the output of dc_pgp_pk_encrypt, for a plaintext that is not
\* empty, recipients with at least one valid public key, a decryption keyring holding a
\* recipient's private key and a validation keyring holding the signer's public key,
\* succeeds, returns the plaintext and fills the collector with the signer's fingerprint
\* alone (with nothing when there is no signer)
C21_RoundTrip ==
    (RoundTripCalled /\ RoundTripCase(pgp_in.in)) =>
        /\ pgp_out.r.enc.success
        /\ pgp_out.r.dec.success
        /\ pgp_out.r.dec.plain = pgp_in.in.plain
        /\ pgp_out.r.dec.fingerprints =
               IF pgp_in.in.signer = NoKey THEN {} ELSE {Fingerprint(pgp_in.in.signer.id)}

\* the round trip of C21 where every key of every keyring is a valid key
C21_AllValid ==
    (/\ RoundTripCalled /\ RoundTripCase(pgp_in.in)
     /\ AllParse(pgp_in.in.to, "public")
     /\ AllParse(pgp_in.in.keys, "private")
     /\ AllParse(pgp_in.in.verify, "public")) =>
        /\ pgp_out.r.enc.success
        /\ pgp_out.r.dec.success
        /\ pgp_out.r.dec.plain = pgp_in.in.plain
        /\ pgp_out.r.dec.fingerprints =
               IF pgp_in.in.signer = NoKey THEN {} ELSE {Fingerprint(pgp_in.in.signer.id)}


\* mrmailbox_connect_to_imap was the latest routine
ConnectToImapCalled == lk_last.routine = "connect_to_imap"

\* C22: mrmailbox_connect_to_imap calls mrimap_connect exactly when IMAP is not connected
\* yet and the mailbox is configured; on a mailbox that is not configured it connects
\* nothing, schedules no retry and leaves the database lock free; when the connection
\* fails the job is tried again after MR_STANDARD_DELAY
C22_ConnectToImap ==
    ConnectToImapCalled =>
        /\ lk_last.attempted <=> (~lk_last.connected /\ lk_last.configured)
        /\ ~lk_last.configured =>
               /\ ~lk_last.attempted
               /\ lk_last.try_again = "none"
               /\ lk_imap = lk_last.connected
               /\ Disciplined(lk_last.trace, 1, FALSE, FALSE)
        /\ (lk_last.attempted /\ ~lk_last.connect_ok) =>
               lk_last.try_again = "MR_STANDARD_DELAY"
        /\ (lk_last.attempted /\ lk_last.connect_ok) =>
               lk_last.try_again = "none" /\ lk_imap

\* a connection that failed on a configured mailbox
C22_Witness ==
    /\ ConnectToImapCalled
    /\ lk_last.configured /\ ~lk_last.connected /\ ~lk_last.connect_ok
    /\ lk_last.try_again = "MR_STANDARD_DELAY"
    /\ ~lk_imap

\* a call on a mailbox that is not configured: the lock was taken and released
C22_WitnessNotConfigured ==
    /\ ConnectToImapCalled
    /\ ~lk_last.configured /\ ~lk_last.connected
    /\ lk_last.trace = <<"lock", "db", "unlock">>

\* a call while IMAP is connected
C22_WitnessConnected == ConnectToImapCalled /\ lk_last.connected /\ lk_last.trace = <<>>


\* the chat that carries the group id of the call's message in the database the call
\* started on, 0 if there is none
GroupOf(call) == LookupChatByGrpid(call.before, GrpidOf(call.m))

\* the call's message names an existing group by its group id
NamesGroup(call) ==
    /\ IsReceive(call) /\ call.m.parsed /\ call.m.parts # <<>>
    /\ GrpidOf(call.m) # NULL
    /\ GroupOf(call) # 0

\* the sender of the call's message as the resolver sees it
SenderOf(call) == IF call.r.incoming THEN call.r.from_id ELSE MR_CONTACT_ID_SELF

\* the sender is no member of the group that the message names
NonMemberCase(call) ==
    /\ NamesGroup(call)
    /\ ~is_contact_in_chat(call.before, GroupOf(call), SenderOf(call))

\* C23: a message whose sender is not a member of the existing group named by its group
\* id is never stored in that group chat: its rows are in a normal chat or in a deaddrop;
\* and the group keeps its name and its members whatever Added, Removed and Name-Changed
\* headers the message carries
C23_NonMember ==
    NonMemberCase(last) =>
        /\ ~last.r.is_group
        /\ \A i \in 1..Len(NewRows(last)) :
               /\ NewRows(last)[i].chat_id # GroupOf(last)
               /\ \/ NewRows(last)[i].chat_id \in {MR_CHAT_ID_DEADDROP, MR_CHAT_ID_TO_DEADDROP}
                  \/ ChatRow(last.r.db, NewRows(last)[i].chat_id).type = MR_CHAT_NORMAL
        /\ ChatRow(last.r.db, GroupOf(last)) = ChatRow(last.before, GroupOf(last))
        /\ ChatMembers(last.r.db, GroupOf(last)) = ChatMembers(last.before, GroupOf(last))
        /\ \A i \in 1..Len(last.r.events) : last.r.events[i].ev # MR_EVENT_CHAT_MODIFIED

\* a contact outside the group sent a renaming message with an Added header; it was stored
C23_Witness ==
    /\ NonMemberCase(last) /\ last.r.incoming /\ last.r.known
    /\ last.m.name_changed /\ last.m.grpname = Renamed /\ last.m.add # NullAddr
    /\ last.r.outcome = "committed"
    /\ NewRows(last) # <<>>
    /\ ChatRow(last.r.db, GroupOf(last)).name = <<"T", "e", "a", "m">>

\* the user, removed from the group, wrote to it from another device
C23_WitnessOutgoing ==
    /\ NonMemberCase(last) /\ ~last.r.incoming
    /\ last.m.remove # NullAddr
    /\ last.r.outcome = "committed"
    /\ NewRows(last) # <<>>


\* the group rows that the call added to the chats table, counting a row that was
\* inserted and then rolled back with the transaction
GroupRowsGained(call) ==
    { i \in (Len(call.before.chats) + 1)..Len(call.r.db.chats) :
          call.r.db.chats[i].type = MR_CHAT_GROUP }

InsertedGroup(call) == call.r.grp_created # 0 \/ GroupRowsGained(call) # {}

\* C24: receive_imf inserts a group chat only if the message is outgoing or comes from a
\* known sender who is not blocked and was sent by a messenger, it has a group name header
\* and no Member-Removed header, and its group id is not in leftgrps unless the
\* Member-Added header names the user's own address
C24_GroupCreation ==
    (IsReceive(last) /\ InsertedGroup(last)) =>
        /\ \/ ~last.r.incoming
           \/ (last.r.known /\ ~last.r.blocked /\ last.m.msgr)
        /\ last.m.grpname # NULL
        /\ last.m.remove = NullAddr
        /\ \/ GrpidOf(last.m) \notin last.before.leftgrps
           \/ (last.m.add # NullAddr /\ StrCaseEq(SelfAddrOf(last.before), last.m.add))
        /\ GroupOf(last) = 0

\* a messenger message of a known sender re-added the user to a group the user had left
C24_Witness ==
    /\ IsReceive(last) /\ last.r.incoming /\ last.r.outcome = "committed"
    /\ GroupRowsGained(last) # {}
    /\ GrpidOf(last.m) \in last.before.leftgrps
    /\ ChatRow(last.r.db, last.r.grp_created).grpid = GrpidOf(last.m)

\* an outgoing message made a group that was neither known nor left
C24_WitnessOutgoing ==
    /\ IsReceive(last) /\ ~last.r.incoming /\ last.r.outcome = "committed"
    /\ GroupRowsGained(last) # {}
    /\ GrpidOf(last.m) = G5

\* a message with a Removed header for an unknown group was stored without a new chat
C24_WitnessRemoved ==
    /\ Stored(last) /\ last.r.known /\ last.m.msgr /\ last.m.grpname # NULL
    /\ last.m.remove # NullAddr /\ GrpidOf(last.m) = G5
    /\ ~InsertedGroup(last)


\* one of the From: mailboxes of the message is the configured address of the user
FromNamesSelf(call) ==
    \E i \in 1..Len(call.m.from) : StrCaseEq(SelfAddrOf(call.before), call.m.from[i])

\* C25: a message is treated as incoming iff it carries a Return-Path header, as typed
\* field or as optional field of that name, and none of its From: mailboxes is the
\* configured address of the user; with that address anywhere in From: it is outgoing
C25_Incoming ==
    (IsReceive(last) /\ last.m.parsed) =>
        (last.r.incoming <=> (/\ last.m.return_path \in {"typed", "optional"}
                              /\ ~FromNamesSelf(last)))

\* C25 restricted to messages with a single From: mailbox
C25_SingleFrom ==
    (IsReceive(last) /\ last.m.parsed /\ Len(last.m.from) = 1) =>
        (last.r.incoming <=> (/\ last.m.return_path \in {"typed", "optional"}
                              /\ ~FromNamesSelf(last)))

\* C25: the user's address is the first From: mailbox, another address the last
C25_SelfFirst ==
    /\ IsReceive(last) /\ last.m.parsed
    /\ Len(last.m.from) = 2 /\ StrCaseEq(SelfAddrOf(last.before), last.m.from[1])
    /\ last.m.return_path = "typed"
    /\ last.r.incoming


\* the contacts that the call created or whose origin it raised
ContactsTouched(call) ==
    { i \in 1..Len(call.r.db.contacts) :
          \/ i > Len(call.before.contacts)
          \/ call.r.db.contacts[i] # call.before.contacts[i] }

\* an incoming message of a sender that is not known
UnknownSenderCase(call) ==
    /\ IsReceive(call) /\ call.m.parsed /\ call.r.outcome = "committed"
    /\ call.r.incoming /\ ~call.r.known

\* C26: To: and Cc: become contacts of to_list only for outgoing messages and for incoming
\* messages of a known sender, and Bcc: only for outgoing messages; for an incoming message
\* of an unknown sender to_list stays empty and no contact but the sender's own is created
\* or raised in origin
C26_Recipients ==
    /\ UnknownSenderCase(last) =>
           /\ last.r.to_list = <<>>
           /\ \A i \in ContactsTouched(last) :
                  ContactIdOf(i) = last.r.from_id
    /\ (IsReceive(last) /\ last.m.parsed /\ last.r.incoming) =>
           \A i \in 1..Len(last.m.bcc) :
               last.m.bcc[i] \notin (SeqToSet(last.m.to) \cup SeqToSet(last.m.cc)) =>
                   LookupContactByAddr(last.r.db, last.m.bcc[i]) \notin SeqToSet(last.r.to_list)

\* C26 without the Cc: header: the To: and Bcc: part of the statement
C26_NoCc ==
    (UnknownSenderCase(last) /\ last.m.cc = <<>>) =>
        /\ last.r.to_list = <<>>
        /\ \A i \in ContactsTouched(last) : ContactIdOf(i) = last.r.from_id

\* C26: the Cc: address of a message of an unknown sender became a contact of to_list
C26_CcOfUnknown ==
    /\ UnknownSenderCase(last)
    /\ last.m.cc = <<F>>
    /\ LookupContactByAddr(last.before, F) = 0
    /\ LookupContactByAddr(last.r.db, F) \in SeqToSet(last.r.to_list)


\* the <id> of a message-id of the form Gr.<id>.<rest> whose <id> has exactly
\* MR_VALID_ID_LEN characters, NULL for every other message-id
EmbeddedId(mid) ==
    IF /\ mid # NULL
       /\ Len(mid) >= MR_VALID_ID_LEN + 4
       /\ SubSeq(mid, 1, 3) = <<"G", "r", ".">>
       /\ mid[MR_VALID_ID_LEN + 4] = "."
       /\ \A i \in 4..(MR_VALID_ID_LEN + 3) : mid[i] # "."
    THEN SubSeq(mid, 4, MR_VALID_ID_LEN + 3)
    ELSE NULL

\* the first id embedded in an entry of a list of message-ids, NULL if no entry has one
FirstEmbeddedId(list) ==
    IF \E i \in 1..Len(list) : EmbeddedId(list[i]) # NULL
    THEN EmbeddedId(list[CHOOSE i \in 1..Len(list) :
                             /\ EmbeddedId(list[i]) # NULL
                             /\ \A j \in 1..(i - 1) : EmbeddedId(list[j]) = NULL])
    ELSE NULL

\* the group id by priority: header, Message-ID, In-Reply-To, References
ExpectedGrpid(m) ==
    IF m.grpid # NULL THEN m.grpid
    ELSE IF EmbeddedId(m.mid) # NULL THEN EmbeddedId(m.mid)
    ELSE IF FirstEmbeddedId(m.in_reply_to) # NULL THEN FirstEmbeddedId(m.in_reply_to)
    ELSE FirstEmbeddedId(m.references)

\* the call asked the resolver: the message has parts and is incoming or has a recipient
ResolverRan(call) ==
    /\ IsReceive(call) /\ call.m.parsed /\ call.m.parts # <<>>
    /\ call.r.incoming \/ call.r.to_list # <<>>

\* the group chats and their members
GroupRows(d) == { <<i, d.chats[i]>> : i \in { j \in 1..Len(d.chats) : d.chats[j].type = MR_CHAT_GROUP } }
GroupMembers(d) == { p \in d.chats_contacts : ChatRow(d, p[1]).type = MR_CHAT_GROUP }

\* the resolver has no reason to turn the message of a member away from its group
PlainGroupMessage(call, g) ==
    /\ LookupChatByGrpid(call.before, g) # 0
    /\ is_contact_in_chat(call.before, LookupChatByGrpid(call.before, g), SenderOf(call))
    /\ Len(call.r.to_list) # 1 \/ call.m.msgr

\* C27: the resolver uses the first available of the Chat-Group-ID header, the id embedded
\* in Message-ID, the first id embedded in In-Reply-To and the first embedded in References,
\* an id being embedded only in a message-id of the form Gr.<id>.<rest> with an <id> of
\* exactly 11 characters: the message of a member goes to the chat of that id, a chat that
\* is made carries that id, and without any id the resolver returns 0 and changes nothing
C27_GrpidPriority ==
    ResolverRan(last) =>
        /\ PlainGroupMessage(last, ExpectedGrpid(last.m)) =>
               /\ last.r.is_group
               /\ last.r.chat_id = LookupChatByGrpid(last.before, ExpectedGrpid(last.m))
        /\ last.r.grp_created # 0 =>
               last.r.work.chats[last.r.grp_created - MR_CHAT_ID_LAST_SPECIAL].grpid
                   = ExpectedGrpid(last.m)
        /\ ExpectedGrpid(last.m) = NULL =>
               /\ ~last.r.is_group
               /\ last.r.grp_created = 0
               /\ GroupRows(last.r.db) = GroupRows(last.before)
               /\ GroupMembers(last.r.db) = GroupMembers(last.before)
               /\ \A i \in 1..Len(last.r.events) : last.r.events[i].ev # MR_EVENT_CHAT_MODIFIED

\* no header and no usable Message-ID, the second In-Reply-To entry names the group
C27_Witness ==
    /\ ResolverRan(last)
    /\ last.m.grpid = NULL /\ last.m.mid = LongGrMid
    /\ last.m.in_reply_to = <<M2, GrMid(G4)>> /\ last.m.references = <<GrMid(G3)>>
    /\ last.r.is_group
    /\ ChatRow(last.before, last.r.chat_id).grpid = G4

\* header and Message-ID name different groups
C27_WitnessHeader ==
    /\ ResolverRan(last)
    /\ last.m.grpid = G1 /\ last.m.mid = GrMid(G3)
    /\ last.r.is_group
    /\ ChatRow(last.before, last.r.chat_id).grpid = G1

\* ids of 10 and 12 characters only: no group
C27_WitnessNone ==
    /\ ResolverRan(last) /\ last.r.outcome = "committed"
    /\ last.m.grpid = NULL /\ last.m.mid = ShortGrMid
    /\ last.m.in_reply_to = <<LongGrMid>> /\ last.m.references = <<>>
    /\ ~last.r.is_group

\* the id comes from References, after an entry with an id of the wrong length
C27_WitnessReferences ==
    /\ ResolverRan(last) /\ last.r.outcome = "committed"
    /\ last.m.grpid = NULL /\ last.m.mid = M1 /\ last.m.in_reply_to = <<>>
    /\ last.m.references = <<M2, ShortGrMid, GrMid(G5)>>
    /\ last.r.grp_created # 0
    /\ ChatRow(last.r.db, last.r.grp_created).grpid = G5


\* a message of a member of the existing group it names, with a Member-Removed header
RemovedCase(call) ==
    /\ NamesGroup(call)
    /\ is_contact_in_chat(call.before, GroupOf(call), SenderOf(call))
    /\ call.m.remove # NullAddr

\* C28: after receive_imf has processed the message of a member of an existing group with
\* Chat-Group-Member-Removed: X, the contact with the address X is no member of that chat,
\* and SELF is a member iff X is not the configured address of the user
C28_MemberRemoved ==
    (RemovedCase(last) /\ last.r.outcome = "committed") =>
        /\ \A id \in ContactIds(last.r.db) :
               contact_addr_equals(last.r.db, id, last.m.remove)
                   => ~is_contact_in_chat(last.r.db, GroupOf(last), id)
        /\ is_contact_in_chat(last.r.db, GroupOf(last), MR_CONTACT_ID_SELF)
               <=> ~StrCaseEq(SelfAddrOf(last.r.db), last.m.remove)

\* C28 for the calls that asked the resolver
C28_WhenResolved ==
    (RemovedCase(last) /\ ResolverRan(last) /\ last.r.outcome = "committed") =>
        /\ \A id \in ContactIds(last.r.db) :
               contact_addr_equals(last.r.db, id, last.m.remove)
                   => ~is_contact_in_chat(last.r.db, GroupOf(last), id)
        /\ is_contact_in_chat(last.r.db, GroupOf(last), MR_CONTACT_ID_SELF)
               <=> ~StrCaseEq(SelfAddrOf(last.r.db), last.m.remove)

\* c@x was a member of the group and was removed by the message of a@x
C28_Witness ==
    /\ RemovedCase(last) /\ last.r.outcome = "committed" /\ last.r.incoming
    /\ last.m.remove = C
    /\ is_contact_in_chat(last.before, GroupOf(last), LookupContactByAddr(last.before, C))
    /\ ~is_contact_in_chat(last.r.db, GroupOf(last), LookupContactByAddr(last.r.db, C))
    /\ is_contact_in_chat(last.r.db, GroupOf(last), MR_CONTACT_ID_SELF)

\* the user was removed
C28_WitnessSelf ==
    /\ RemovedCase(last) /\ last.r.outcome = "committed" /\ last.r.incoming
    /\ last.m.remove = SelfAddr
    /\ is_contact_in_chat(last.before, GroupOf(last), MR_CONTACT_ID_SELF)
    /\ ~is_contact_in_chat(last.r.db, GroupOf(last), MR_CONTACT_ID_SELF)


\* the message of a member of an existing group with exactly one recipient in to_list, not
\* sent by a messenger, while the chat holds more than 3 contacts once the resolver has
\* executed the commands of the message
ReplyCase(call) ==
    /\ NamesGroup(call) /\ ResolverRan(call)
    /\ is_contact_in_chat(call.before, GroupOf(call), SenderOf(call))
    /\ Len(call.r.to_list) = 1
    /\ ~call.m.msgr
    /\ get_chat_contact_count(call.r.work, GroupOf(call)) > 3

\* C29: a message that matches an existing group, has exactly one element in to_list, was
\* not sent by a messenger and meets more than 3 contacts in the stored chat is not put into
\* the group: the resolver returns 0 and the message is stored in a normal chat or in a
\* deaddrop
C29_ReplyGuard ==
    ReplyCase(last) =>
        /\ ~last.r.is_group
        /\ last.r.chat_id # GroupOf(last)
        /\ \/ last.r.chat_id \in {MR_CHAT_ID_DEADDROP, MR_CHAT_ID_TO_DEADDROP}
           \/ ChatRow(last.r.work, last.r.chat_id).type = MR_CHAT_NORMAL
        /\ \A i \in 1..Len(NewRows(last)) : NewRows(last)[i].chat_id = last.r.chat_id

\* a@x answered c@x alone from a mail client in the group of four
C29_Witness ==
    /\ ReplyCase(last) /\ last.r.incoming /\ last.r.outcome = "committed"
    /\ ChatRow(last.before, GroupOf(last)).grpid = G3
    /\ get_chat_contact_count(last.before, GroupOf(last)) = 4
    /\ NewRows(last) # <<>>
    /\ ChatRow(last.r.db, NewRows(last)[1].chat_id).type = MR_CHAT_NORMAL

\* the same answer in the group of three goes to the group
C29_WitnessSmall ==
    /\ NamesGroup(last) /\ ResolverRan(last) /\ last.r.outcome = "committed"
    /\ Len(last.r.to_list) = 1 /\ ~last.m.msgr
    /\ get_chat_contact_count(last.r.db, GroupOf(last)) = 3
    /\ last.r.is_group /\ last.r.chat_id = GroupOf(last)


\* the committed message of a member of an existing group with the Name-Changed flag and a
\* group name header
RenameCase(call) ==
    /\ NamesGroup(call) /\ ResolverRan(call) /\ call.r.outcome = "committed"
    /\ is_contact_in_chat(call.before, GroupOf(call), SenderOf(call))
    /\ call.m.name_changed /\ call.m.grpname # NULL

\* the chat has the name of the message and CHAT_MODIFIED(chat_id, 0) was emitted
NameApplied(call) ==
    /\ ChatRow(call.r.db, GroupOf(call)).name = mr_decode_header_string(call.m.grpname)
    /\ \E i \in 1..Len(call.r.events) :
           /\ call.r.events[i].ev = MR_EVENT_CHAT_MODIFIED
           /\ call.r.events[i].data1 = GroupOf(call)
           /\ call.r.events[i].data2 = 0

\* C30: for the message of a member of an existing group with the Name-Changed flag, a
\* group name header and no Added or Removed header, the chat takes the new name and
\* CHAT_MODIFIED(chat_id, 0) is emitted iff the decoded name has at most 200 characters;
\* with an Added or Removed header the name is never changed
C30_NameLimit ==
    RenameCase(last) =>
        IF last.m.add = NullAddr /\ last.m.remove = NullAddr
        THEN NameApplied(last) <=> Len(mr_decode_header_string(last.m.grpname)) <= 200
        ELSE ChatRow(last.r.db, GroupOf(last)).name = ChatRow(last.before, GroupOf(last)).name

\* C30 with the limit of the code: names of fewer than 200 characters are applied
C30_Below200 ==
    RenameCase(last) =>
        IF last.m.add = NullAddr /\ last.m.remove = NullAddr
        THEN NameApplied(last) <=> Len(mr_decode_header_string(last.m.grpname)) < 200
        ELSE ChatRow(last.r.db, GroupOf(last)).name = ChatRow(last.before, GroupOf(last)).name

\* C30: a name of exactly 200 characters was not applied
C30_Exactly200 ==
    /\ RenameCase(last)
    /\ last.m.add = NullAddr /\ last.m.remove = NullAddr
    /\ Len(mr_decode_header_string(last.m.grpname)) = 200
    /\ ChatRow(last.r.db, GroupOf(last)).name = <<"T", "e", "a", "m">>

\* C30: a name of 199 characters was applied
C30_Applied199 ==
    /\ RenameCase(last)
    /\ last.m.add = NullAddr /\ last.m.remove = NullAddr
    /\ Len(mr_decode_header_string(last.m.grpname)) = 199
    /\ NameApplied(last)


\* a stored incoming message that the resolver found no group for
IncomingNoGroup(call) ==
    /\ Stored(call) /\ call.r.incoming /\ ~call.r.is_group

\* the call made the normal chat with the contact and put the message there
MadeChatWith(call, contact_id) ==
    /\ call.r.chat_id > MR_CHAT_ID_LAST_SPECIAL
    /\ call.r.chat_id \notin ChatIds(call.before)
    /\ ChatRow(call.r.db, call.r.chat_id).type = MR_CHAT_NORMAL
    /\ ChatMembers(call.r.db, call.r.chat_id) = {contact_id}

\* the origin of the contact is INCOMING_REPLY_TO or above
RaisedToReply(d, contact_id) ==
    /\ contact_id \in ContactIds(d)
    /\ OriginRank(ContactRow(d, contact_id).origin) >= OriginRank("INCOMING_REPLY_TO")

\* C31: an incoming message that matches no group goes to the real chat with from_id if
\* there is one; otherwise, sent by a messenger, it has that chat created; otherwise, as a
\* reply to a known message, it has the sender's origin raised to INCOMING_REPLY_TO and the
\* chat created; otherwise it is stored in DEADDROP
C31_IncomingChat ==
    IncomingNoGroup(last) =>
        IF lookup_real_nchat_by_contact_id(last.before, last.r.from_id) # 0
        THEN last.r.chat_id = lookup_real_nchat_by_contact_id(last.before, last.r.from_id)
        ELSE IF last.m.msgr
        THEN MadeChatWith(last, last.r.from_id)
        ELSE IF is_reply_to_known_message(last.before, last.m)
        THEN MadeChatWith(last, last.r.from_id) /\ RaisedToReply(last.r.db, last.r.from_id)
        ELSE last.r.chat_id = MR_CHAT_ID_DEADDROP

\* C31 as the code has it: a messenger message has the chat created only for a known sender
C31_KnownMessenger ==
    IncomingNoGroup(last) =>
        IF lookup_real_nchat_by_contact_id(last.before, last.r.from_id) # 0
        THEN last.r.chat_id = lookup_real_nchat_by_contact_id(last.before, last.r.from_id)
        ELSE IF last.r.known /\ last.m.msgr
        THEN MadeChatWith(last, last.r.from_id)
        ELSE IF is_reply_to_known_message(last.before, last.m)
        THEN MadeChatWith(last, last.r.from_id) /\ RaisedToReply(last.r.db, last.r.from_id)
        ELSE last.r.chat_id = MR_CHAT_ID_DEADDROP

\* C31: the messenger message of an unknown sender, no reply, went to the deaddrop
C31_UnknownMessenger ==
    /\ IncomingNoGroup(last) /\ last.m.msgr /\ ~last.r.known /\ ~last.r.blocked
    /\ ~is_reply_to_known_message(last.before, last.m)
    /\ last.r.chat_id = MR_CHAT_ID_DEADDROP

\* C31: the reply of an unknown sender from a mail client made the chat
C31_ReplyMadeChat ==
    /\ IncomingNoGroup(last) /\ ~last.m.msgr /\ ~last.r.known
    /\ is_reply_to_known_message(last.before, last.m)
    /\ MadeChatWith(last, last.r.from_id)
    /\ ContactRow(last.r.db, last.r.from_id).origin = "INCOMING_REPLY_TO"


\* a stored outgoing message that the resolver found no group for, or was not asked about
OutgoingNoGroup(call) ==
    /\ Stored(call) /\ ~call.r.incoming /\ ~call.r.is_group

\* the normal chats of the database that have a blocked contact as member
ChatsWithBlocked(d) ==
    { id \in ChatIds(d) : /\ ChatRow(d, id).type = MR_CHAT_NORMAL
                          /\ \E c \in ChatMembers(d, id) : is_contact_blocked(d, c) }

\* C32: an outgoing message that matches no group goes to the real chat with the first
\* recipient if there is one; otherwise that chat is created only if the message was sent
\* by a messenger and the recipient is not blocked; in every other case, without any
\* recipient too, it is stored in TO_DEADDROP; no chat with a blocked recipient is created
C32_OutgoingChat ==
    /\ OutgoingNoGroup(last) =>
           IF last.r.to_list = <<>>
           THEN last.r.chat_id = MR_CHAT_ID_TO_DEADDROP
           ELSE IF lookup_real_nchat_by_contact_id(last.before, last.r.to_list[1]) # 0
           THEN last.r.chat_id = lookup_real_nchat_by_contact_id(last.before, last.r.to_list[1])
           ELSE IF last.m.msgr /\ ~is_contact_blocked(last.r.db, last.r.to_list[1])
           THEN MadeChatWith(last, last.r.to_list[1])
           ELSE /\ last.r.chat_id = MR_CHAT_ID_TO_DEADDROP
                /\ Len(last.r.db.chats) = Len(last.before.chats)
    /\ (IsReceive(last) /\ ~last.r.incoming) =>
           ChatsWithBlocked(last.r.db) \subseteq ChatsWithBlocked(last.before)

\* a messenger message to the blocked contact b@x went to the to-deaddrop
C32_Witness ==
    /\ OutgoingNoGroup(last) /\ last.m.msgr
    /\ last.r.to_list # <<>> /\ is_contact_blocked(last.r.db, last.r.to_list[1])
    /\ last.r.chat_id = MR_CHAT_ID_TO_DEADDROP

\* a messenger message to d@x made the chat with d@x
C32_WitnessMade ==
    /\ OutgoingNoGroup(last) /\ last.m.msgr
    /\ last.r.to_list # <<>> /\ MadeChatWith(last, last.r.to_list[1])

\* a message without recipients
C32_WitnessNone ==
    /\ OutgoingNoGroup(last) /\ last.r.to_list = <<>>
    /\ last.r.chat_id = MR_CHAT_ID_TO_DEADDROP


\* the calls of receive_imf that committed rows of a message
CreatedRows(call) ==
    /\ IsReceive(call) /\ call.r.outcome = "committed" /\ NewRows(call) # <<>>

\* the create events of a call: its INCOMING_MSG and MSGS_CHANGED events
CreateEventsOf(call) ==
    SelectSeq(call.r.events,
              LAMBDA e : e.ev \in {MR_EVENT_INCOMING_MSG, MR_EVENT_MSGS_CHANGED})

HasMsgsChangedEvent(call) ==
    \E i \in 1..Len(CreateEventsOf(call)) : CreateEventsOf(call)[i].ev = MR_EVENT_MSGS_CHANGED

FreshIncoming(call) == call.r.incoming /\ call.r.state = MR_IN_FRESH

\* C33: MSGS_CHANGED is emitted for the created rows iff the message is outgoing or not
\* fresh; a fresh incoming message produces only INCOMING_MSG events or no create event,
\* and no create event of any kind when its sender is blocked
C33_EventSelection ==
    CreatedRows(last) =>
        /\ HasMsgsChangedEvent(last) <=> ~FreshIncoming(last)
        /\ FreshIncoming(last) =>
               \A i \in 1..Len(CreateEventsOf(last)) :
                   CreateEventsOf(last)[i].ev = MR_EVENT_INCOMING_MSG
        /\ (FreshIncoming(last) /\ last.r.blocked) => CreateEventsOf(last) = <<>>

\* C33 (amended): MSGS_CHANGED is emitted for the created rows iff the message is outgoing,
\* or not fresh, or a fresh incoming message of a sender who is not blocked that went to
\* the deaddrop while show_deaddrop is 0; a fresh incoming message of a blocked sender
\* produces no create event of any kind
C33_WithHiddenDeaddrop ==
    CreatedRows(last) =>
        /\ HasMsgsChangedEvent(last) <=>
               \/ ~FreshIncoming(last)
               \/ /\ ~last.r.blocked /\ last.r.chat_id = MR_CHAT_ID_DEADDROP
                  /\ last.before.config.show_deaddrop = 0
        /\ (FreshIncoming(last) /\ last.r.blocked) => CreateEventsOf(last) = <<>>

\* a fresh incoming message in the hidden deaddrop was announced by MSGS_CHANGED
C33_HiddenDeaddrop ==
    /\ CreatedRows(last) /\ FreshIncoming(last) /\ ~last.r.blocked
    /\ last.r.chat_id = MR_CHAT_ID_DEADDROP /\ last.before.config.show_deaddrop = 0
    /\ HasMsgsChangedEvent(last)


\* an INSERT INTO msgs failed after rows of the message had been inserted: the transaction
\* is rolled back in cleanup
RolledBackPartWay(call) ==
    /\ IsReceive(call) /\ call.r.outcome = "failed"
    /\ Len(call.r.work.msgs) > Len(call.before.msgs)

\* C34: when receive_imf rolls back because an insert into msgs failed part-way, the
\* message is dropped without any MSGS_CHANGED or INCOMING_MSG event; no create event
\* refers to a row that was not committed
C34_NoEventAfterRollback ==
    /\ RolledBackPartWay(last) => CreateEventsOf(last) = <<>>
    /\ IsReceive(last) =>
           \A i \in 1..Len(CreateEventsOf(last)) :
               CreateEventsOf(last)[i].data2 \in MsgIds(last.r.db)

\* the second insert failed and the first row, rolled back, was announced
C34_AnnouncedRolledBack ==
    /\ RolledBackPartWay(last) /\ last.fail.at = 2
    /\ last.r.db = last.before
    /\ \E i \in 1..Len(CreateEventsOf(last)) :
           CreateEventsOf(last)[i].data2 \notin MsgIds(last.r.db)


\* the msg ids the create events of a call carry, in order
AnnouncedIds(call) == [i \in 1..Len(CreateEventsOf(call)) |-> CreateEventsOf(call)[i].data2]

\* the ids of the rows a call added
NewIds(call) == { MsgIdOf(i) : i \in (Len(call.before.msgs) + 1)..Len(call.r.db.msgs) }

\* a committed message whose rows are announced by a create event
AnnouncedCase(call) ==
    /\ CreatedRows(call) /\ CreateEventsOf(call) # <<>>

\* C35: for a message with k >= 1 parts receive_imf emits exactly one create event per
\* inserted row, and the msg id of each event is the id of a distinct inserted row: every
\* inserted part and every ghost row is announced exactly once with its own id
C35_OneEventPerRow ==
    AnnouncedCase(last) =>
        /\ Len(CreateEventsOf(last)) = Len(NewRows(last))
        /\ \A i \in 1..Len(AnnouncedIds(last)) : AnnouncedIds(last)[i] \in NewIds(last)
        /\ \A i, j \in 1..Len(AnnouncedIds(last)) :
               i # j => AnnouncedIds(last)[i] # AnnouncedIds(last)[j]

\* what holds of the code: one create event per inserted row, each naming a row of the call
C35_OneEventEach ==
    AnnouncedCase(last) =>
        /\ Len(CreateEventsOf(last)) = Len(NewRows(last))
        /\ \A i \in 1..Len(AnnouncedIds(last)) : AnnouncedIds(last)[i] \in NewIds(last)

\* both events of a message with two parts carry the id of the first row
C35_SameIdTwice ==
    /\ AnnouncedCase(last) /\ Len(last.m.parts) = 2
    /\ Len(AnnouncedIds(last)) = 2
    /\ AnnouncedIds(last)[1] = AnnouncedIds(last)[2]


\* the CHAT_MODIFIED events a call emitted for a chat
ChatModifiedFor(call, chat_id) ==
    SelectSeq(call.r.events, LAMBDA e : e.ev = MR_EVENT_CHAT_MODIFIED /\ e.data1 = chat_id)

\* the resolver met the existing group of the message, the sender being a member of it, and
\* returned 0 all the same: the reply guard has demoted the message
GuardFired(call) ==
    /\ NamesGroup(call) /\ ResolverRan(call)
    /\ is_contact_in_chat(call.before, GroupOf(call), SenderOf(call))
    /\ ~call.r.is_group

\* C36: whenever the resolver returns 0 because of the single-recipient reply guard, the
\* matched group chat is left unchanged: its name and its chats_contacts rows are as before
\* the call and no CHAT_MODIFIED event was emitted for it
C36_GuardLeavesGroup ==
    GuardFired(last) =>
        /\ ChatRow(last.r.work, GroupOf(last)).name = ChatRow(last.before, GroupOf(last)).name
        /\ ChatMembers(last.r.work, GroupOf(last)) = ChatMembers(last.before, GroupOf(last))
        /\ ChatModifiedFor(last, GroupOf(last)) = <<>>

\* C36 (amended): whenever the reply guard demotes a message, the chats_contacts rows of the
\* matched group are as before the call; its name is as before and no CHAT_MODIFIED event
\* was emitted for it unless the message carries the Name-Changed flag, whose rename is
\* executed before the guard
C36_GuardLeavesMembers ==
    GuardFired(last) =>
        /\ ChatMembers(last.r.work, GroupOf(last)) = ChatMembers(last.before, GroupOf(last))
        /\ ~last.m.name_changed =>
               /\ ChatRow(last.r.work, GroupOf(last)).name
                      = ChatRow(last.before, GroupOf(last)).name
               /\ ChatModifiedFor(last, GroupOf(last)) = <<>>

\* a reply without the Name-Changed flag was demoted
C36_Witness ==
    /\ GuardFired(last) /\ last.r.outcome = "committed" /\ ~last.m.name_changed
    /\ last.r.chat_id # GroupOf(last)

\* the demoted message renamed the group on its way
C36_RenamedAndDemoted ==
    /\ GuardFired(last) /\ last.r.outcome = "committed"
    /\ last.m.name_changed
    /\ ChatRow(last.r.db, GroupOf(last)).name # ChatRow(last.before, GroupOf(last)).name
    /\ ChatModifiedFor(last, GroupOf(last)) # <<>>


\* the committed message of a member of its existing group that carries a Member-Added
\* header and no Member-Removed header
AddedCase(call) ==
    /\ NamesGroup(call) /\ ResolverRan(call) /\ call.r.outcome = "committed"
    /\ is_contact_in_chat(call.before, GroupOf(call), SenderOf(call))
    /\ call.m.add # NullAddr /\ call.m.remove = NullAddr

\* the contacts of the database that carry an address
ContactsNamed(d, addr) == { id \in ContactIds(d) : contact_addr_equals(d, id, addr) }

C37_WitnessGrown ==
    /\ AddedCase(last) /\ last.m.add = D
    /\ ChatMembers(last.before, GroupOf(last)) \subseteq ChatMembers(last.r.db, GroupOf(last))
    /\ ChatMembers(last.before, GroupOf(last)) # ChatMembers(last.r.db, GroupOf(last))
    /\ \E id \in ContactsNamed(last.r.db, D) : is_contact_in_chat(last.r.db, GroupOf(last), id)

\* the contact the header names is no recipient and is no member afterwards
C37_WitnessNotAdded ==
    /\ AddedCase(last)
    /\ \A id \in ContactsNamed(last.r.db, last.m.add) :
           ~is_contact_in_chat(last.r.db, GroupOf(last), id)


\* C38: in every reachable state the wake-lock counter is >= 0, whatever the sequence and
\* interleaving of wake_lock and wake_unlock calls, an unlock without outstanding lock
\* included; after such an unlock the next wake_lock still emits WAKE_LOCK(1,0), so that
\* the wake lock is on whenever a lock is outstanding
C38_CounterNonNegative ==
    /\ m_wake_lock >= 0
    /\ (WakeQuiet /\ wake_hist.owed > 0) =>
           (wake_events # <<>> /\ wake_events[Len(wake_events)] = 1)

\* an unmatched unlock has returned and the wake_lock after it has returned without
\* WAKE_LOCK(1,0): the counter went 0, -1, 0
C38_LockWithoutEvent ==
    /\ WakeQuiet /\ wake_hist.owed = 1 /\ wake_hist.calls = 2
    /\ m_wake_lock = 0
    /\ wake_events = <<>>


\* mrmailbox_disconnect has returned, mrmailbox_connect was not called since, and neither
\* thread is inside a routine
DisconnectSettled ==
    /\ lk_pc.settled
    /\ lk_pc.main = "idle" /\ lk_pc.job = "idle"

\* C39: for every interleaving of mrmailbox_disconnect with a job thread executing
\* mrmailbox_connect_to_imap: once disconnect has returned, the operations in flight have
\* finished and no later connect was issued, the IMAP client is not connected and no
\* MRJ_CONNECT_TO_IMAP job is pending
C39_DisconnectWins ==
    DisconnectSettled => (~lk_imap /\ ~lk_job)

\* what holds of the code: no job is pending then
C39_NoJobPending ==
    DisconnectSettled => ~lk_job

\* the job thread connected after mrmailbox_disconnect had returned
C39_ConnectedAfterDisconnect ==
    /\ DisconnectSettled /\ lk_imap /\ lk_pc.calls = 2


\* cleanup was reached in a call whose arguments passed the test at the start
CleanupCalled == pgp_out.fn = "cleanup" /\ pgp_in.in.args_ok

\* C40: in the rPGP builds of dc_pgp_pk_encrypt and dc_pgp_pk_decrypt, on every path, the
\* failure to load the signing key or the i-th key of a keyring included, each handle passed
\* to a drop function in cleanup was returned by a successful load of the same call and is
\* dropped at most once; no uninitialised array slot is dropped
C40_DropsLoaded ==
    CleanupCalled =>
        /\ \A i \in 1..Len(pgp_out.r) : pgp_out.r[i].slot = "loaded"
        /\ \A i, j \in 1..Len(pgp_out.r) :
               i # j => <<pgp_out.r[i].array, pgp_out.r[i].index>>
                            # <<pgp_out.r[j].array, pgp_out.r[j].index>>

\* what holds of the code: when every key loads, cleanup drops the loaded handles, each once
C40_DropsWhenAllLoad ==
    (/\ CleanupCalled
     /\ pgp_in.in.signer.kind \in {"none", "private"}
     /\ AllParse(pgp_in.in.secret, "private") \/ pgp_in.in.fn = "dc_pgp_pk_encrypt"
     /\ AllParse(pgp_in.in.public, "public")) =>
        \A i \in 1..Len(pgp_out.r) : pgp_out.r[i].slot = "loaded"

\* the first of two keys for encryption does not load: cleanup drops the NULL of the failed
\* load and the slot behind it, which was never written
C40_DropsUnsetSlot ==
    /\ CleanupCalled /\ pgp_in.in.fn = "dc_pgp_pk_encrypt"
    /\ pgp_in.in.public = <<JunkKey, PubKey(1)>>
    /\ \E i \in 1..Len(pgp_out.r) : pgp_out.r[i].slot = "unset"

====
